---- MODULE Spec2Model ----
(***************************************************************************)
(* Session-state core of camofox-mcp: the Tab Registry (state.ts), the     *)
(* Profile Store with its per-file write mutex and the Deadline Race       *)
(* (profiles.ts).  Each subsystem has its own specification; the variables *)
(* of the other subsystems stay at their initial values.                   *)
(***************************************************************************)
EXTENDS Integers, Sequences, FiniteSets, TLC

(***************************************************************************)
(* Bounds and configuration                                                *)
(***************************************************************************)
\* Tab ids are issued by the remote browser service (createTab's response),
\* one fresh id per created tab, in this order.
TabIdSeq == <<"t1", "t2", "t3">>
\* One more tab, for runs that go on after a refused registration.
TabIdSeqLong == <<"t1", "t2", "t3", "t4">>
TabIds == {TabIdSeqLong[i] : i \in 1..Len(TabIdSeqLong)}
UserIds == {"u1", "u2"}
Urls == {"A", "B"}
\* One more page, for histories that outgrow VISITED_URLS_LIMIT.
UrlsLong == {"A", "B", "C"}
Signals == {"SIGINT", "SIGTERM"}

\* CAMOFOX_MAX_TABS, CAMOFOX_TAB_TTL_MS and CAMOFOX_VISITED_URLS_LIMIT as
\* configured for the model (clock ticks for the TTL).
MAX_TABS == 2
TAB_TTL_MS == 1
VISITED_URLS_LIMIT == 2
\* The clock runs from 0 to MaxTime.
MaxTime == 3
\* incrementToolCall is followed up to this count.
MaxToolCalls == 2
\* updateRefsCount draws its argument from RefCounts.
RefCounts == {0, 7}

\* The values CAMOFOX_TAB_TTL_MS is started with: 0 (eviction disabled) and
\* TAB_TTL_MS.
TtlValues == {0, TAB_TTL_MS}

\* The ids validateProfileId is tried on: the ids of the repository's tests and
\* ids at the edges of the pattern.
IdSamples ==
    {"", "a", "A0", "_", "a_b.c-d", "Z9", "z", "a{64}", "a{65}", "-bad", ".bad", "bad!",
     "a b", "a/b", "..", ".", "a<LF>", "a.{63}", "a.{64}", "../p", "p1"}

\* Profile ids (all pass validateProfileId), the cookie arrays callers save and
\* the concurrent saveProfile calls followed.
ProfileIds == {"p1", "p2"}
\* An id that validateProfileId refuses.
MalformedIds == {"../p"}
\* An optional property is <<>> when it is undefined or absent, <<v>> otherwise.
Undefined == <<>>
\* Cookies as the browser exports them: a session cookie without `expires` and
\* one with it.
CookieJars ==
    { <<[name |-> <<"c1">>, expires |-> Undefined]>>,
      <<[name |-> <<"c1">>, expires |-> Undefined],
        [name |-> <<"c2">>, expires |-> <<"9">>]>> }
\* A cookie payload whose entry has no `name`.
MalformedJars == { <<[name |-> Undefined, expires |-> <<"9">>]>> }
\* The `description` option of a save.
Descriptions == {Undefined, <<"d">>}
Savers == {"s1", "s2"}
\* One more call, for the runs in which two calls wait for the same mutex.
SaversLong == Savers \cup {"s3"}
\* The process is killed and restarted at most this many times.
MaxCrashes == 1

\* The withAutoTimeout calls followed, and what their operations resolve or
\* reject with.
RaceIds == {"r1", "r2", "r3"}
\* The tool calls followed; a call uses the withAutoTimeout call of its name.
CallIds == {"r1", "r2"}
OpValues == {"v1", "v2"}
OpErrors == {"e1"}

VARIABLES
    tabs,        \* state.ts `tabs`: the Map tabId -> TabInfo (DOMAIN = live ids)
    issued,      \* number of tab ids the remote service has issued so far
    now,         \* Date.now()
    lastError,   \* code of the AppError thrown by the last registry call, or "none"
    closeRaw,    \* per tab id: state of the promise returned by the closeTab callback
    closeWrap,   \* per tab id: state of withTimeout(closeTab(..)).catch(..)
    closeCalls,  \* per tab id: the userId arguments of the callback's invocations, in order
    removedBy,   \* per tab id: "sweep" or "drain" once that took the id out of `tabs`,
                 \* "refused" when trackTab threw for it
    sweepTimer,  \* the setInterval(sweep) timer: "on" or "off"
    tabTtl,      \* TAB_TTL_MS as parsed from CAMOFOX_TAB_TTL_MS when the module loaded
    listeners,   \* per signal: is the process.once listener still installed
    drains,      \* per signal: the handleShutdown run it started
    phase,       \* "running", "exited" (process.exit(0)) or "crashed" (unhandled rejection)
    disk,        \* the profile directory: path -> file content, or Absent
    mutex,       \* saveProfileMutexByPath: file path -> Mutex {locked, waiters}
    saves,       \* per saveProfile call: its position and its local variables
    lastLoad,    \* outcome of the last loadProfile call a reader made
    lastDelete,  \* outcome of the last deleteProfile call
    listing,     \* the listProfiles call: its position, the names left and its array
    crashes,     \* number of times the process was killed
    races,       \* per withAutoTimeout call: the operation, the timer and the result
    calls,       \* per tool call: the handler's position, its locals and its result
    remote       \* the tabs the create_tab calls opened at the remote service and
                 \* no close has closed since: tab id -> [userId]

tabVars == <<tabs, issued, now, lastError, closeRaw, closeWrap, closeCalls,
             removedBy, sweepTimer, tabTtl, listeners, drains, phase>>

profVars == <<disk, mutex, saves, lastLoad, lastDelete, listing, crashes>>

raceVars == <<races>>

toolVars == <<calls, remote>>

vars == <<tabVars, profVars, raceVars, toolVars>>

\* What the operations of one subsystem leave alone.
NotTab == <<profVars, raceVars, toolVars>>
NotProf == <<tabVars, raceVars, toolVars>>
NotRace == <<tabVars, profVars, toolVars>>

(***************************************************************************)
(* Helpers on maps                                                         *)
(***************************************************************************)
Put(f, k, v) == [x \in DOMAIN f \cup {k} |-> IF x = k THEN v ELSE f[x]]
Drop(f, ks) == [x \in DOMAIN f \ ks |-> f[x]]
\* Variant: the first n entries are kept.
SliceFirst(s, n) == IF Len(s) <= n THEN s ELSE SubSeq(s, 1, n)
\* Array.prototype.slice(-n) for n >= 1
SliceLast(s, n) == IF Len(s) <= n THEN s ELSE SubSeq(s, Len(s) - n + 1, Len(s))
\* Variant: only the last entry is compared.
IncludesLast(s, x) == s # <<>> /\ s[Len(s)] = x
\* Array.prototype.includes
Includes(s, x) == \E i \in 1..Len(s) : s[i] = x

NoDrain == [st |-> "idle", ids |-> {}, timer |-> "off"]

(***************************************************************************)
(* Tab Registry: state.ts                                                  *)
(***************************************************************************)
\* Variant: the sweep runs whatever the TTL.
SweepEnabledAlways(ttl) == TRUE
\* The test `TAB_TTL_MS > 0` that guards both the body of sweep and the
\* installation of its interval timer (SWEEP_INTERVAL_MS is at least 1000)
SweepEnabled(ttl) == ttl > 0

\* The module state of a process started with CAMOFOX_TAB_TTL_MS = ttl
TabInitAt(ttl) ==
    /\ tabs = <<>>
    /\ issued = 0
    /\ now = 0
    /\ lastError = "none"
    /\ closeRaw = [id \in TabIds |-> "none"]
    /\ closeWrap = [id \in TabIds |-> "none"]
    /\ closeCalls = [id \in TabIds |-> <<>>]
    /\ removedBy = [id \in TabIds |-> "none"]
    /\ tabTtl = ttl
    /\ sweepTimer = IF SweepEnabled(ttl) THEN "on" ELSE "off"
    /\ listeners = [s \in Signals |-> TRUE]
    /\ drains = [s \in Signals |-> NoDrain]
    /\ phase = "running"

TabInit == TabInitAt(TAB_TTL_MS)

\* Ghost bookkeeping: the ids the sweep or the drain takes out of `tabs` in this
\* step are marked with that operation.
MarkRemoved(label) ==
    removedBy' = [id \in TabIds |->
                    IF id \in DOMAIN tabs /\ id \notin DOMAIN tabs'
                    THEN label ELSE removedBy[id]]

closeVars == <<closeRaw, closeWrap, closeCalls>>
procVars == <<sweepTimer, tabTtl, listeners, drains, phase>>

\* Variant: the capacity test counts the tabs ever created, not the live ones.
TrackTabFullEver(t) == issued >= MAX_TABS
\* Variant: the capacity test off by one.
TrackTabFullOff(t) == Cardinality(DOMAIN t) > MAX_TABS
\* trackTab's capacity test
TrackTabFull(t) == Cardinality(DOMAIN t) >= MAX_TABS

\* trackTab(tab): the caller's lastActivity is overwritten with Date.now()
TrackTab(tab) ==
    IF TrackTabFull(tabs)
    THEN /\ lastError' = "MAX_TABS_EXCEEDED"
         /\ UNCHANGED tabs
    ELSE /\ tabs' = Put(tabs, tab.tabId, [tab EXCEPT !.lastActivity = now])
         /\ lastError' = "none"

\* The create_tab path into trackTab: the remote service issues a fresh tab id, the
\* handler builds the TabInfo (visitedUrls [url], toolCalls 1, refsCount 0) and
\* registers it.  The id is used up whether or not trackTab throws.
\* The lastActivity values a caller of trackTab passes in (the code ignores them).
CallerStamps == {0, 123}

RegisterFrom(users, urls, idSeq) ==
    /\ phase = "running"
    /\ issued < Len(idSeq)
    /\ \E u \in users, url \in urls, la \in CallerStamps :
         TrackTab([tabId |-> idSeq[issued + 1], url |-> url, userId |-> u,
                   lastActivity |-> la, visitedUrls |-> <<url>>,
                   toolCalls |-> 1, refsCount |-> 0])
    /\ issued' = issued + 1
    /\ removedBy' = IF idSeq[issued + 1] \in DOMAIN tabs' THEN removedBy
                     ELSE [removedBy EXCEPT ![idSeq[issued + 1]] = "refused"]
    /\ UNCHANGED <<now, closeVars, procVars>>
    /\ UNCHANGED NotTab

\* Tabs of any user, opened at one fixed page.
Register == RegisterFrom(UserIds, {"A"}, TabIdSeq)
\* Tabs of one user, opened at one fixed page.
RegisterSolo == RegisterFrom({"u1"}, {"A"}, TabIdSeq)
\* The same, with one more tab.
RegisterLong == RegisterFrom({"u1"}, {"A"}, TabIdSeqLong)

\* removeTrackedTab(tabId)
RemoveTrackedTab ==
    /\ phase = "running"
    /\ \E id \in TabIds : tabs' = Drop(tabs, {id})
    /\ lastError' = "none"
    /\ UNCHANGED <<issued, now, closeVars, removedBy, procVars>>
    /\ UNCHANGED NotTab

\* Variant: a lookup does not stamp the record.
TouchNever(t, id, time) == t
\* getTrackedTab(tabId): the record with lastActivity stamped, when the id is live
Touch(t, id, time) == [t EXCEPT ![id].lastActivity = time]

\* getTrackedTab: tabs.get(tabId) returns an entry
IsTracked(t, id) == id \in DOMAIN t
\* Variant: an unknown id silently gets an empty record.
MissingTabDefault(t, id) ==
    Put(t, id, [tabId |-> id, url |-> "A", userId |-> "u1", lastActivity |-> 0,
                visitedUrls |-> <<>>, toolCalls |-> 0, refsCount |-> 0])
\* getTrackedTab on an unknown id: the AppError is thrown, the Map is not touched
MissingTab(t, id) == t

GetTrackedTabOn(id) ==
    /\ phase = "running"
    /\ IF IsTracked(tabs, id)
       THEN tabs' = Touch(tabs, id, now) /\ lastError' = "none"
       ELSE tabs' = MissingTab(tabs, id) /\ lastError' = "TAB_NOT_FOUND"
    /\ UNCHANGED <<issued, now, closeVars, removedBy, procVars>>
    /\ UNCHANGED NotTab

GetTrackedTab == \E id \in TabIds : GetTrackedTabOn(id)

\* Variant: the loop stops after the first entry it deletes.
ClearedFirstOnly(t, u) ==
    LET mine == {id \in DOMAIN t : t[id].userId = u}
    IN  IF mine = {} THEN t
        ELSE Drop(t, {CHOOSE id \in mine : TRUE})
\* The Map after the loop of clearTrackedTabsByUserId(userId): every entry whose
\* userId === userId is deleted
Cleared(t, u) == Drop(t, {id \in DOMAIN t : t[id].userId = u})

\* clearTrackedTabsByUserId(userId)
ClearTrackedTabsByUserIdOn(u) ==
    /\ phase = "running"
    /\ tabs' = Cleared(tabs, u)
    /\ lastError' = "none"
    /\ UNCHANGED <<issued, now, closeVars, removedBy, procVars>>
    /\ UNCHANGED NotTab

ClearTrackedTabsByUserId == \E u \in UserIds : ClearTrackedTabsByUserIdOn(u)

\* incrementToolCall(tabId)
IncrementToolCallOn(id) ==
    /\ phase = "running"
    /\ IF IsTracked(tabs, id)
       THEN /\ tabs[id].toolCalls < MaxToolCalls
            /\ tabs' = [Touch(tabs, id, now) EXCEPT ![id].toolCalls = @ + 1]
            /\ lastError' = "none"
       ELSE tabs' = MissingTab(tabs, id) /\ lastError' = "TAB_NOT_FOUND"
    /\ UNCHANGED <<issued, now, closeVars, removedBy, procVars>>
    /\ UNCHANGED NotTab

IncrementToolCall == \E id \in TabIds : IncrementToolCallOn(id)

\* updateTabUrl's new visitedUrls
VisitedAfter(visited, url) ==
    LET pushed == IF Includes(visited, url) THEN visited ELSE Append(visited, url)
    IN  IF Len(pushed) > VISITED_URLS_LIMIT
        THEN SliceLast(pushed, VISITED_URLS_LIMIT)
        ELSE pushed

\* updateTabUrl(tabId, url)
UpdateTabUrlOn(id, url) ==
    /\ phase = "running"
    /\ IF IsTracked(tabs, id)
       THEN /\ tabs' = [Touch(tabs, id, now) EXCEPT
                          ![id].url = url,
                          ![id].visitedUrls = VisitedAfter(@, url)]
            /\ lastError' = "none"
       ELSE tabs' = MissingTab(tabs, id) /\ lastError' = "TAB_NOT_FOUND"
    /\ UNCHANGED <<issued, now, closeVars, removedBy, procVars>>
    /\ UNCHANGED NotTab

UpdateTabUrl == \E id \in TabIds, url \in Urls : UpdateTabUrlOn(id, url)
\* The same over three pages.
UpdateTabUrlLong == \E id \in TabIds, url \in UrlsLong : UpdateTabUrlOn(id, url)

\* updateRefsCount(tabId, refsCount)
UpdateRefsCountOn(id, n) ==
    /\ phase = "running"
    /\ IF IsTracked(tabs, id)
       THEN /\ tabs' = [Touch(tabs, id, now) EXCEPT ![id].refsCount = n]
            /\ lastError' = "none"
       ELSE tabs' = MissingTab(tabs, id) /\ lastError' = "TAB_NOT_FOUND"
    /\ UNCHANGED <<issued, now, closeVars, removedBy, procVars>>
    /\ UNCHANGED NotTab

UpdateRefsCount == \E id \in TabIds, n \in RefCounts : UpdateRefsCountOn(id, n)

\* Date.now() advances
Tick ==
    /\ phase = "running"
    /\ now < MaxTime
    /\ now' = now + 1
    /\ UNCHANGED <<tabs, issued, lastError, closeVars, removedBy, procVars>>
    /\ UNCHANGED NotTab

\* The closeTab callback is invoked for each of `ids` with (tabId, userId) of
\* the record `t` holds, and each call is wrapped in withTimeout(..).catch(..).
CallsAfter(ids, t) ==
    [id \in TabIds |-> IF id \in ids THEN Append(closeCalls[id], t[id].userId)
                       ELSE closeCalls[id]]
PendingAfter(ids, st) == [id \in TabIds |-> IF id \in ids THEN "pending" ELSE st[id]]

\* Variant: a session idle for exactly the TTL is evicted too.
SweepVictimsAtTtl(t, time) == {id \in DOMAIN t : time - t[id].lastActivity >= tabTtl}
\* sweep: the sessions whose idle time exceeds the TTL
SweepVictims(t, time) == {id \in DOMAIN t : time - t[id].lastActivity > tabTtl}
\* Variant: the sweep leaves the entry in place and relies on the callback to
\* remove it after the remote close.
SweepRemainingKeep(t, victims) == t
\* sweep: tabs.delete(tabId) for every victim, before its close is started
SweepRemaining(t, victims) == Drop(t, victims)

\* setupCleanup.sweep, run by the interval timer
Sweep ==
    /\ phase = "running"
    /\ sweepTimer = "on"
    /\ IF ~SweepEnabled(tabTtl)
       THEN UNCHANGED <<tabs, closeVars, removedBy>>
       ELSE LET victims == SweepVictims(tabs, now)
            IN  /\ tabs' = SweepRemaining(tabs, victims)
                /\ closeCalls' = CallsAfter(victims, tabs)
                /\ closeRaw' = PendingAfter(victims, closeRaw)
                /\ closeWrap' = PendingAfter(victims, closeWrap)
                /\ MarkRemoved("sweep")
    /\ UNCHANGED <<issued, now, lastError, procVars>>
    /\ UNCHANGED NotTab

\* Variant: the wait is Promise.allSettled over the callback's own promises, with
\* no budget timer.
ShutdownRaceSettledNoBudget(d, wrap, raw) ==
    /\ d.st = "waiting"
    /\ \A id \in d.ids : raw[id] # "pending"
\* handleShutdown's wait: Promise.race([Promise.allSettled(closes), budget timer])
ShutdownRaceSettled(d, wrap, raw) ==
    /\ d.st = "waiting"
    /\ \/ d.timer = "fired"
       \/ \A id \in d.ids : wrap[id] # "pending"

\* process.exit(0) runs as soon as the wait of some handleShutdown run is over
PhaseAfter(dr, wrap, raw) ==
    IF \E s \in Signals : ShutdownRaceSettled(dr[s], wrap, raw)
    THEN "exited" ELSE "running"

\* Variant: the rejection of withTimeout(closeTab(..)) is not caught.
CaughtNot == FALSE
\* The .catch(() => undefined) behind every withTimeout(closeTab(..)) call
Caught == TRUE

\* The callback's promise resolves: the remote close succeeded and the callback
\* (index.ts) then calls removeTrackedTab(tabId).
CloseResolve ==
    /\ phase = "running"
    /\ \E id \in TabIds :
         /\ closeRaw[id] = "pending"
         /\ closeRaw' = [closeRaw EXCEPT ![id] = "ok"]
         /\ closeWrap' = [closeWrap EXCEPT ![id] = IF @ = "pending" THEN "ok" ELSE @]
         /\ tabs' = Drop(tabs, {id})
         /\ remote' = Drop(remote, {id})
    /\ phase' = PhaseAfter(drains, closeWrap', closeRaw')
    /\ UNCHANGED <<issued, now, lastError, closeCalls, removedBy, sweepTimer, tabTtl,
                   listeners, drains>>
    /\ UNCHANGED <<profVars, raceVars, calls>>

\* The callback's promise rejects: the remote close failed.
CloseReject ==
    /\ phase = "running"
    /\ \E id \in TabIds :
         /\ closeRaw[id] = "pending"
         /\ closeRaw' = [closeRaw EXCEPT ![id] = "failed"]
         /\ closeWrap' = [closeWrap EXCEPT ![id] = IF @ = "pending" THEN "failed" ELSE @]
         /\ phase' = IF closeWrap[id] = "pending" /\ ~Caught
                     THEN "crashed"
                     ELSE PhaseAfter(drains, closeWrap', closeRaw')
    /\ UNCHANGED <<tabs, issued, now, lastError, closeCalls, removedBy,
                   sweepTimer, tabTtl, listeners, drains>>
    /\ UNCHANGED NotTab

\* withTimeout's timer fires before the callback's promise has settled; the
\* callback's promise stays pending.
CloseTimeout ==
    /\ phase = "running"
    /\ \E id \in TabIds :
         /\ closeWrap[id] = "pending"
         /\ closeWrap' = [closeWrap EXCEPT ![id] = "timeout"]
         /\ phase' = IF ~Caught THEN "crashed"
                     ELSE PhaseAfter(drains, closeWrap', closeRaw)
    /\ UNCHANGED <<tabs, issued, now, lastError, closeRaw, closeCalls, removedBy,
                   sweepTimer, tabTtl, listeners, drains>>
    /\ UNCHANGED NotTab

\* Variant: the drain leaves the entries in place until their closes are done.
DrainRemainingLater(t, ids) == t
\* handleShutdown: tabs.delete(tabId) for every entry, before its close is started
DrainRemaining(t, ids) == Drop(t, ids)

\* setupCleanup.handleShutdown, started by the process.once listener of signal s
HandleShutdown(s) ==
    /\ phase = "running"
    /\ listeners[s]
    /\ listeners' = [listeners EXCEPT ![s] = FALSE]
    /\ sweepTimer' = "off"
    /\ LET ids == DOMAIN tabs
       IN  /\ tabs' = DrainRemaining(tabs, ids)
           /\ closeCalls' = CallsAfter(ids, tabs)
           /\ closeRaw' = PendingAfter(ids, closeRaw)
           /\ closeWrap' = PendingAfter(ids, closeWrap)
           /\ drains' = [drains EXCEPT ![s] = [st |-> "waiting", ids |-> ids,
                                               timer |-> "armed"]]
    /\ MarkRemoved("drain")
    /\ phase' = PhaseAfter(drains', closeWrap', closeRaw')
    /\ UNCHANGED <<issued, now, lastError, tabTtl>>
    /\ UNCHANGED NotTab

Signal == \E s \in Signals : HandleShutdown(s)

\* The SHUTDOWN_TIMEOUT_MS timer of a handleShutdown run fires.
ShutdownTimer ==
    /\ phase = "running"
    /\ \E s \in Signals :
         /\ drains[s].st = "waiting"
         /\ drains[s].timer = "armed"
         /\ drains' = [drains EXCEPT ![s].timer = "fired"]
    /\ phase' = PhaseAfter(drains', closeWrap, closeRaw)
    /\ UNCHANGED <<tabs, issued, now, lastError, closeVars, removedBy,
                   sweepTimer, tabTtl, listeners>>
    /\ UNCHANGED NotTab

(***************************************************************************)
(* Profile Store: profiles.ts                                              *)
(***************************************************************************)
None == "none"
\* A path with no file, and a file holding the text `chunks`
Absent == [exists |-> FALSE, chunks |-> <<>>]
File(chunks) == [exists |-> TRUE, chunks |-> chunks]

\* profilePath(dir, profileId) = join(dir, `${profileId}.json`)
ProfilePath(id) == <<id, "json">>
\* Variant: the record is written in place, without a temporary file.
TmpPathInPlace(filePath) == filePath
\* saveProfile: tmpPath = `${filePath}.tmp`
TmpPath(filePath) == <<filePath[1], "json.tmp">>

\* The profiles directory itself (config.profilesDir), as an entry of `disk`
DirPath == <<"profiles", "dir">>
Dir == File(<<>>)

FilePaths == {ProfilePath(id) : id \in ProfileIds}
\* A file in the directory whose name is no profile id: "bad!.json"
StrayPath == <<"bad!", "json">>
Paths ==
    FilePaths \cup {<<id, "json.tmp">> : id \in ProfileIds} \cup {DirPath, StrayPath}

\* n times the character c
Repeat(c, n) == [i \in 1..n |-> c]

\* The characters of the profile ids, by the label the model gives each id
\* (the label is the id itself except for the long ones and the line feed)
IdText ==
    ("p1" :> <<"p", "1">>) @@ ("p2" :> <<"p", "2">>) @@ ("../p" :> <<".", ".", "/", "p">>)
    @@ ("" :> <<>>) @@ ("a" :> <<"a">>) @@ ("A0" :> <<"A", "0">>) @@ ("_" :> <<"_">>)
    @@ ("a_b.c-d" :> <<"a", "_", "b", ".", "c", "-", "d">>)
    @@ ("Z9" :> <<"Z", "9">>) @@ ("z" :> <<"z">>)
    @@ ("a{64}" :> Repeat("a", 64)) @@ ("a{65}" :> Repeat("a", 65))
    @@ ("-bad" :> <<"-", "b", "a", "d">>) @@ (".bad" :> <<".", "b", "a", "d">>)
    @@ ("bad!" :> <<"b", "a", "d", "!">>) @@ ("a b" :> <<"a", " ", "b">>)
    @@ ("a/b" :> <<"a", "/", "b">>) @@ (".." :> <<".", ".">>) @@ ("." :> <<".">>)
    @@ ("a<LF>" :> <<"a", "LF">>) @@ ("a.{63}" :> <<"a">> \o Repeat(".", 63))
    @@ ("a.{64}" :> <<"a">> \o Repeat(".", 64))

\* The characters of the model that the class [a-zA-Z0-9_] holds
WordChars == {"a", "b", "c", "d", "p", "z", "A", "Z", "0", "1", "2", "9", "_"}
\* The characters of the model that the class [a-zA-Z0-9._-] holds
RestChars == WordChars \cup {".", "-"}

\* The number of characters from position `from` on that the quantifier
\* [a-zA-Z0-9._-]{0,max} consumes: as many as it can, up to max.
RECURSIVE Consumed(_, _, _)
Consumed(t, from, max) ==
    IF max = 0 \/ from > Len(t) \/ t[from] \notin RestChars THEN 0
    ELSE 1 + Consumed(t, from + 1, max - 1)

\* Variant: the pattern has no `$`.
AtEndAnywhere(t, pos) == TRUE
\* `$` without the m flag: the match ends at the end of the string
AtEnd(t, pos) == pos = Len(t) + 1

\* PROFILE_ID_REGEX.test(text) for /^[a-zA-Z0-9_][a-zA-Z0-9._-]{0,63}$/
RegexTest(t) ==
    /\ t # <<>>
    /\ t[1] \in WordChars
    /\ AtEnd(t, 2 + Consumed(t, 2, 63))

\* validateProfileId(profileId) does not throw
ValidProfileId(id) == RegexTest(IdText[id])

\* z.array(ProfileCookieSchema).safeParse(cookies) succeeds
CookiesValid(cookies) == \A i \in 1..Len(cookies) : cookies[i].name # Undefined

\* JSON text of an object, as the function from its keys to its values.  An
\* optional property is <<>> when undefined and <<v>> when it has the value v;
\* JSON.stringify leaves out a property whose value is undefined.
NoMembers == [key \in {} |-> 0]
Member(key, value) == key :> value
\* Variant: an undefined property is written as null.
OptMemberNull(key, opt) == key :> (IF opt = <<>> THEN "null" ELSE opt[1])
OptMember(key, opt) == IF opt = <<>> THEN NoMembers ELSE key :> opt[1]

\* The optional property `key` of a parsed JSON object
Get(obj, key) == IF key \in DOMAIN obj THEN <<obj[key]>> ELSE <<>>

CookieText(c) == OptMember("name", c.name) @@ OptMember("expires", c.expires)

\* JSON.stringify(profile, null, 2): the text, as the two chunks writeFile puts on
\* disk, the keys up to `cookies` and the `metadata` object that closes the text.
Serialize(profile) ==
    << Member("version", profile.version) @@ Member("profileId", profile.profileId)
         @@ Member("userId", profile.userId)
         @@ Member("cookies", [i \in 1..Len(profile.cookies) |->
                                 CookieText(profile.cookies[i])]),
       Member("createdAt", profile.metadata.createdAt)
         @@ Member("updatedAt", profile.metadata.updatedAt)
         @@ OptMember("description", profile.metadata.description)
         @@ Member("cookieCount", profile.metadata.cookieCount) >>

\* ProfileCookieSchema: `name` is required, `expires` is an optional number
CookieSchemaOk(c) == Get(c, "name") # <<>> /\ Get(c, "expires") # <<"null">>

\* ProfileSchema.safeParse succeeds on the parsed text: the required keys are
\* there, version is the literal 1, and every cookie passes its schema
\* (description may be a string, null or absent).
SchemaOk(head, meta) ==
    /\ {"version", "profileId", "userId", "cookies"} \subseteq DOMAIN head
    /\ {"createdAt", "updatedAt", "cookieCount"} \subseteq DOMAIN meta
    /\ head["version"] = 1
    /\ \A i \in 1..Len(head["cookies"]) : CookieSchemaOk(head["cookies"][i])

\* The object ProfileSchema.safeParse returns
Parsed(head, meta) ==
    [version |-> head["version"], profileId |-> head["profileId"],
     userId |-> head["userId"],
     cookies |-> [i \in 1..Len(head["cookies"]) |->
                    [name |-> Get(head["cookies"][i], "name"),
                     expires |-> Get(head["cookies"][i], "expires")]],
     metadata |-> [createdAt |-> meta["createdAt"],
                   updatedAt |-> meta["updatedAt"],
                   description |-> Get(meta, "description"),
                   cookieCount |-> meta["cookieCount"]]]

\* Variant: the profileId inside the file is not compared with the one asked for.
IdMatchesAny(profile, profileId) == TRUE
\* loadProfile: parsed.data.profileId === profileId
IdMatches(profile, profileId) == profile.profileId = profileId

\* loadProfile on the content of the file at the profile's path: readFile,
\* JSON.parse (a text cut short, or any text that is not the two chunks of an
\* object, does not parse), ProfileSchema.safeParse and the profileId comparison.
LoadOutcome(content, profileId) ==
    IF ~content.exists THEN [ok |-> FALSE, code |-> "PROFILE_NOT_FOUND"]
    ELSE IF Len(content.chunks) # 2
         THEN [ok |-> FALSE, code |-> "PROFILE_ERROR"]
    ELSE IF ~SchemaOk(content.chunks[1], content.chunks[2])
         THEN [ok |-> FALSE, code |-> "PROFILE_ERROR"]
    ELSE IF ~IdMatches(Parsed(content.chunks[1], content.chunks[2]), profileId)
         THEN [ok |-> FALSE, code |-> "PROFILE_ERROR"]
    ELSE [ok |-> TRUE, value |-> Parsed(content.chunks[1], content.chunks[2])]

\* No listProfiles call yet
IdleList == [pc |-> "idle", files |-> {}, profiles |-> <<>>]

IdleSave == [pc |-> "idle", id |-> None, userId |-> None, cookies |-> <<>>,
             description |-> Undefined, now |-> 0, createdAt |-> 0,
             waited |-> FALSE, error |-> None]

ProfInit ==
    /\ disk = [path \in Paths |-> Absent]
    /\ mutex = [path \in FilePaths |-> [locked |-> FALSE, waiters |-> <<>>]]
    /\ saves = [p \in SaversLong |-> IdleSave]
    /\ lastLoad = <<>>
    /\ lastDelete = <<>>
    /\ listing = IdleList
    /\ crashes = 0

\* saveProfile, up to its first await: validateProfileId throws, or it passes and
\* ensureProfilesDir is called.
SaveCallFrom(p, ids, users, jars, descs) ==
    /\ saves[p].pc \in {"idle", "done", "failed"}
    /\ \E id \in ids, u \in users, cookies \in jars, d \in descs :
         saves' = [saves EXCEPT ![p] =
                     [IdleSave EXCEPT !.id = id, !.userId = u, !.cookies = cookies,
                                      !.description = d,
                                      !.pc = IF ValidProfileId(id) THEN "ensure"
                                             ELSE "failed",
                                      !.error = IF ValidProfileId(id) THEN None
                                                ELSE "VALIDATION_ERROR"]]
    /\ UNCHANGED <<disk, mutex, lastLoad, lastDelete, listing, crashes>>
    /\ UNCHANGED NotProf

\* Saves of one profile by one user, without options.
SaveCall(p) == SaveCallFrom(p, {"p1"}, {"u1"}, CookieJars, {Undefined})

\* Saves of either profile, with or without a description.
SaveCallOpt(p) == SaveCallFrom(p, ProfileIds, {"u1"}, CookieJars, Descriptions)

\* Saves of either profile with the same one-cookie payload.
SaveCallPlain(p) ==
    SaveCallFrom(p, ProfileIds, {"u1"}, {<<[name |-> <<"c1">>, expires |-> Undefined]>>},
                 {Undefined})

\* Variant: one mutex for the whole store.
MutexKeyShared(filePath) == ProfilePath("p1")
\* getSaveProfileMutex(filePath): the key of saveProfileMutexByPath
MutexKey(filePath) == filePath

\* Variant: acquire never waits.
AcquireGrantsAlways(m) == TRUE
\* Mutex.acquire: the caller proceeds at once when the mutex is not locked
AcquireGrants(m) == ~m.locked

\* ensureProfilesDir(dir): mkdir(dir, { recursive: true }) and chmod
EnsuredDir(d) == [d EXCEPT ![DirPath] = Dir]

\* saveProfile once ensureProfilesDir has resolved: the cookies are parsed, and
\* when they pass `now` is taken and getSaveProfileMutex(filePath).runExclusive
\* calls Mutex.acquire.
SaveEnter(p) ==
    /\ saves[p].pc = "ensure"
    /\ disk' = EnsuredDir(disk)
    /\ LET fp == ProfilePath(saves[p].id)
       IN  IF ~CookiesValid(saves[p].cookies)
           THEN /\ saves' = [saves EXCEPT ![p].pc = "failed",
                                           ![p].error = "PROFILE_ERROR"]
                /\ UNCHANGED mutex
           ELSE IF AcquireGrants(mutex[MutexKey(fp)])
           THEN /\ mutex' = [mutex EXCEPT ![MutexKey(fp)].locked = TRUE]
                /\ saves' = [saves EXCEPT ![p].pc = "locked", ![p].now = now]
           ELSE /\ mutex' = [mutex EXCEPT ![MutexKey(fp)].waiters = Append(@, p)]
                /\ saves' = [saves EXCEPT ![p].pc = "queued", ![p].now = now,
                                           ![p].waited = TRUE]
    /\ UNCHANGED <<lastLoad, lastDelete, listing, crashes>>
    /\ UNCHANGED NotProf

\* Variant: createdAt is always the time of this save.
CreatedAtFresh(existing, time) == time
\* Variant: a failed load leaves createdAt unset.
CreatedAtUnset(existing, time) ==
    IF existing.ok THEN existing.value.metadata.createdAt ELSE 0
\* saveProfile: createdAt is carried over from the existing record when
\* loadProfile returns one, and is `now` when loadProfile throws
CreatedAtFor(existing, time) ==
    IF existing.ok THEN existing.value.metadata.createdAt ELSE time

\* The critical section's first step: loadProfile(dir, profileId) in the try block.
SaveReadExisting(p) ==
    /\ saves[p].pc = "locked"
    /\ LET existing == LoadOutcome(disk[ProfilePath(saves[p].id)], saves[p].id)
       IN  saves' = [saves EXCEPT ![p].pc = "write",
                                  ![p].createdAt = CreatedAtFor(existing, saves[p].now)]
    /\ UNCHANGED <<disk, mutex, lastLoad, lastDelete, listing, crashes>>
    /\ UNCHANGED NotProf

\* The Profile object saveProfile builds
ProfileOf(sv) ==
    [version |-> 1, profileId |-> sv.id, userId |-> sv.userId, cookies |-> sv.cookies,
     metadata |-> [createdAt |-> sv.createdAt, updatedAt |-> sv.now,
                   description |-> sv.description,
                   cookieCount |-> Len(sv.cookies)]]

\* writeFile(tmpPath, data): the file is opened truncated and the first chunk of
\* the text is written.
SaveWriteBegin(p) ==
    /\ saves[p].pc = "write"
    /\ LET tmp == TmpPath(ProfilePath(saves[p].id))
           data == Serialize(ProfileOf(saves[p]))
       IN  disk' = [disk EXCEPT ![tmp] = File(<<data[1]>>)]
    /\ saves' = [saves EXCEPT ![p].pc = "writing"]
    /\ UNCHANGED <<mutex, lastLoad, lastDelete, listing, crashes>>
    /\ UNCHANGED NotProf

\* writeFile(tmpPath, data): the rest of the text is written after what the
\* file holds by now.
SaveWriteEnd(p) ==
    /\ saves[p].pc = "writing"
    /\ LET tmp == TmpPath(ProfilePath(saves[p].id))
           data == Serialize(ProfileOf(saves[p]))
       IN  disk' = [disk EXCEPT ![tmp] = File(Append(@.chunks, data[2]))]
    /\ saves' = [saves EXCEPT ![p].pc = "rename"]
    /\ UNCHANGED <<mutex, lastLoad, lastDelete, listing, crashes>>
    /\ UNCHANGED NotProf

\* fs rename(from, to): `to` gets the content of `from`, which is gone afterwards
Renamed(d, from, to) ==
    IF from = to THEN d
    ELSE [path \in DOMAIN d |-> IF path = to THEN d[from]
                                ELSE IF path = from THEN Absent ELSE d[path]]

\* Mutex.release: the first waiter is admitted and the mutex stays locked, or
\* the mutex is unlocked
Released(m) ==
    IF m.waiters # <<>> THEN [m EXCEPT !.waiters = Tail(@)]
    ELSE [m EXCEPT !.locked = FALSE]

\* Variant: release admits the waiter that came last.
AdmittedLast(sv, m) ==
    IF m.waiters # <<>> THEN [sv EXCEPT ![m.waiters[Len(m.waiters)]].pc = "locked"] ELSE sv
\* The save calls as Mutex.release leaves them: the first waiter's acquire resolves.
Admitted(sv, m) ==
    IF m.waiters # <<>> THEN [sv EXCEPT ![Head(m.waiters)].pc = "locked"] ELSE sv

\* Variant: runExclusive calls release() after `await fn()`, outside any finally.
FinallyRunsNot == FALSE
\* runExclusive: try { return await fn() } finally { this.release() }, so
\* release() also runs when fn() rejects
FinallyRuns == TRUE

\* The mutex and the save calls once fn() has rejected
ReleasedOnThrow(m) == IF FinallyRuns THEN Released(m) ELSE m
AdmittedOnThrow(sv, m) == IF FinallyRuns THEN Admitted(sv, m) ELSE sv

\* rename(tmpPath, filePath) and the end of runExclusive: on success the profile
\* is returned, on ENOENT the save fails; either way the mutex is released.
SaveRename(p) ==
    /\ saves[p].pc = "rename"
    /\ LET fp == ProfilePath(saves[p].id)
           tmp == TmpPath(fp)
       IN  /\ IF ~disk[tmp].exists
              THEN /\ UNCHANGED disk
                   /\ saves' = Admitted([saves EXCEPT ![p].pc = "failed",
                                                       ![p].error = "ENOENT"],
                                         mutex[MutexKey(fp)])
              ELSE /\ disk' = Renamed(disk, tmp, fp)
                   /\ saves' = Admitted([saves EXCEPT ![p].pc = "done"], mutex[MutexKey(fp)])
           /\ mutex' = [mutex EXCEPT ![MutexKey(fp)] = Released(@)]
    /\ UNCHANGED <<lastLoad, lastDelete, listing, crashes>>
    /\ UNCHANGED NotProf

\* The content at a path; a path the model keeps no file for has none
DiskAt(d, path) == IF path \in DOMAIN d THEN d[path] ELSE Absent

\* What a caller of loadProfile gets
Loaded(id) == LoadOutcome(DiskAt(disk, ProfilePath(id)), id)

\* loadProfile(dir, profileId) called by a reader, at any moment; lastLoad keeps
\* the id and "ok" or the error code, and Loaded(id) is the value returned.
LoadProfileOn(id) ==
    /\ lastLoad' = <<[id |-> id,
                      res |-> IF ~ValidProfileId(id) THEN "VALIDATION_ERROR"
                              ELSE IF Loaded(id).ok THEN "ok" ELSE Loaded(id).code]>>
    /\ UNCHANGED <<disk, mutex, saves, lastDelete, listing, crashes>>
    /\ UNCHANGED NotProf

LoadProfile == \E id \in ProfileIds : LoadProfileOn(id)

\* Loads with well-formed and malformed ids.
LoadProfileAny == \E id \in {"p1"} \cup MalformedIds : LoadProfileOn(id)

\* Variant: the file stays where it is.
UnlinkedNot(d, path) == d
\* fs unlink(path) on an existing file
Unlinked(d, path) == [d EXCEPT ![path] = Absent]

\* deleteProfile(dir, profileId): validateProfileId, then unlink(filePath), whose
\* ENOENT becomes PROFILE_NOT_FOUND.
DeleteProfileOn(id) ==
    /\ IF ~ValidProfileId(id)
       THEN /\ lastDelete' = <<[id |-> id, res |-> "VALIDATION_ERROR"]>>
            /\ UNCHANGED disk
       ELSE IF ~DiskAt(disk, ProfilePath(id)).exists
       THEN /\ lastDelete' = <<[id |-> id, res |-> "PROFILE_NOT_FOUND"]>>
            /\ UNCHANGED disk
       ELSE /\ lastDelete' = <<[id |-> id, res |-> "ok"]>>
            /\ disk' = Unlinked(disk, ProfilePath(id))
    /\ UNCHANGED <<mutex, saves, lastLoad, listing, crashes>>
    /\ UNCHANGED NotProf

\* Deletes with well-formed and malformed ids.
DeleteProfileAny == \E id \in {"p1"} \cup MalformedIds : DeleteProfileOn(id)

\* Saves with well-formed and malformed ids and cookie payloads.
SaveCallAny(p) ==
    SaveCallFrom(p, {"p1"} \cup MalformedIds, {"u1"}, CookieJars \cup MalformedJars,
                 {Undefined})

\* The error a failing fs call rejects with: a Node.js Error whose `code` is the
\* errno name (permission denied, no space left on device).
OsErrors == {"EACCES", "ENOSPC"}

\* saveProfile rethrows whatever the fs call rejected with; loadProfile and
\* deleteProfile wrap it in AppError("PROFILE_ERROR").
SaveThrows(osError) == osError
StoreThrows(osError) == "PROFILE_ERROR"

\* ensureProfilesDir rejects (mkdir or chmod fails): saveProfile has no handler
\* around it.
SaveEnsureFail(p) ==
    /\ saves[p].pc = "ensure"
    /\ saves' = [saves EXCEPT ![p].pc = "failed", ![p].error = SaveThrows("EACCES")]
    /\ UNCHANGED <<disk, mutex, lastLoad, lastDelete, listing, crashes>>
    /\ UNCHANGED NotProf

\* writeFile(tmpPath, data) rejects, before or after its first chunk: the
\* rejection leaves runExclusive through its finally, which releases the mutex.
SaveWriteFail(p) ==
    /\ saves[p].pc \in {"write", "writing"}
    /\ LET fp == ProfilePath(saves[p].id)
       IN  /\ \E e \in OsErrors :
                saves' = AdmittedOnThrow([saves EXCEPT ![p].pc = "failed",
                                                       ![p].error = SaveThrows(e)],
                                         mutex[MutexKey(fp)])
           /\ mutex' = [mutex EXCEPT ![MutexKey(fp)] = ReleasedOnThrow(@)]
    /\ UNCHANGED <<disk, lastLoad, lastDelete, listing, crashes>>
    /\ UNCHANGED NotProf

\* rename(tmpPath, filePath) rejects with the temp file in place.
SaveRenameFail(p) ==
    /\ saves[p].pc = "rename"
    /\ LET fp == ProfilePath(saves[p].id)
       IN  /\ saves' = AdmittedOnThrow([saves EXCEPT ![p].pc = "failed",
                                                    ![p].error = SaveThrows("EACCES")],
                                      mutex[MutexKey(fp)])
           /\ mutex' = [mutex EXCEPT ![MutexKey(fp)] = ReleasedOnThrow(@)]
    /\ UNCHANGED <<disk, lastLoad, lastDelete, listing, crashes>>
    /\ UNCHANGED NotProf

\* loadProfile whose readFile rejects with something other than ENOENT
LoadFault ==
    /\ \E id \in ProfileIds :
         lastLoad' = <<[id |-> id, res |-> StoreThrows("EACCES")]>>
    /\ UNCHANGED <<disk, mutex, saves, lastDelete, listing, crashes>>
    /\ UNCHANGED NotProf

DeleteProfile == \E id \in ProfileIds : DeleteProfileOn(id)

\* deleteProfile whose unlink rejects with something other than ENOENT
DeleteFault ==
    /\ \E id \in ProfileIds :
         lastDelete' = <<[id |-> id, res |-> StoreThrows("EACCES")]>>
    /\ UNCHANGED <<disk, mutex, saves, lastLoad, listing, crashes>>
    /\ UNCHANGED NotProf

\* A record as another writer of the directory stores it
StoredRecord(id, version) ==
    [version |-> version, profileId |-> id, userId |-> "u", cookies |-> <<>>,
     metadata |-> [createdAt |-> 0, updatedAt |-> 0, description |-> Undefined,
                   cookieCount |-> 0]]

\* The texts another writer leaves at a profile's path: a text cut short
\* ("{not-json"), an object of another shape ({ foo: "bar" }), a record of
\* version 99, and well-formed records of either profile id.
ForeignTexts ==
    << <<Serialize(StoredRecord("p1", 1))[1]>>,
       <<Member("foo", "bar"), NoMembers>>,
       Serialize(StoredRecord("p1", 99)),
       Serialize(StoredRecord("p2", 99)),
       Serialize(StoredRecord("p1", 1)),
       Serialize(StoredRecord("p2", 1)) >>

\* writeFile(join(dir, id + ".json"), text) by something other than saveProfile
ForeignWriteTo(ids) ==
    /\ \E id \in ids, i \in 1..Len(ForeignTexts) :
         disk' = [disk EXCEPT ![ProfilePath(id)] = File(ForeignTexts[i])]
    /\ UNCHANGED <<mutex, saves, lastLoad, lastDelete, listing, crashes>>
    /\ UNCHANGED NotProf

ForeignWrite == ForeignWriteTo(ProfileIds)

\* writeFile(join(dir, "bad!.json"), text) with a well-formed record
ForeignWriteStray ==
    /\ disk' = [disk EXCEPT ![StrayPath] = File(Serialize(StoredRecord("bad!", 1)))]
    /\ UNCHANGED <<mutex, saves, lastLoad, lastDelete, listing, crashes>>
    /\ UNCHANGED NotProf

\* readdir(dir): the names of the files in the directory
Readdir(d) == {path \in DOMAIN d \ {DirPath} : d[path].exists}

\* listProfiles up to its loop: ensureProfilesDir(dir) and readdir(dir)
ListStart ==
    /\ listing.pc \in {"idle", "done"}
    /\ disk' = EnsuredDir(disk)
    /\ listing' = [pc |-> "loading", files |-> Readdir(disk), profiles |-> <<>>]
    /\ UNCHANGED <<mutex, saves, lastLoad, lastDelete, crashes>>
    /\ UNCHANGED NotProf

\* Variant: any name that holds ".json" is taken for a record.
EndsWithJsonLoose(path) == path[2] \in {"json", "json.tmp"}
\* file.endsWith(".json")
EndsWithJson(path) == path[2] = "json"

\* loadProfile(dir, profileId) as listProfiles calls it, inside try/catch:
\* what it returns, or the failure that is caught
ListLoaded(id) ==
    IF ~ValidProfileId(id) THEN [ok |-> FALSE, code |-> "VALIDATION_ERROR"]
    ELSE Loaded(id)

\* The array after the loop body has run for the file at `path`: names without
\* the extension are passed over, a record that loads is pushed as
\* { profileId, ...profile.metadata }, a load that throws is skipped.
ListPushed(profiles, path) ==
    IF ~EndsWithJson(path) THEN profiles
    ELSE IF ~ListLoaded(path[1]).ok THEN profiles
    ELSE Append(profiles, [profileId |-> path[1],
                           metadata |-> ListLoaded(path[1]).value.metadata])

\* One turn of the loop over the names readdir returned (in readdir's order)
ListVisit ==
    /\ listing.pc = "loading"
    /\ \E path \in listing.files :
         listing' = [listing EXCEPT !.files = @ \ {path},
                                    !.profiles = ListPushed(@, path)]
    /\ UNCHANGED <<disk, mutex, saves, lastLoad, lastDelete, crashes>>
    /\ UNCHANGED NotProf

\* The loop is over: listProfiles returns the array.
ListReturn ==
    /\ listing.pc = "loading"
    /\ listing.files = {}
    /\ listing' = [listing EXCEPT !.pc = "done"]
    /\ UNCHANGED <<disk, mutex, saves, lastLoad, lastDelete, crashes>>
    /\ UNCHANGED NotProf

\* The process is killed and started again: the files stay as they are, the calls
\* in flight and the mutexes are gone.
Crash ==
    /\ crashes < MaxCrashes
    /\ crashes' = crashes + 1
    /\ saves' = [p \in SaversLong |-> IdleSave]
    /\ mutex' = [path \in FilePaths |-> [locked |-> FALSE, waiters |-> <<>>]]
    /\ lastLoad' = <<>>
    /\ lastDelete' = <<>>
    /\ listing' = IdleList
    /\ UNCHANGED disk
    /\ UNCHANGED NotProf

(***************************************************************************)
(* Deadline Race: withAutoTimeout in profiles.ts                           *)
(***************************************************************************)
\* st: "idle", "waiting" (suspended at the await of Promise.race), "returned" or
\* "threw"; op: the wrapped promise, "pending", "resolved" or "rejected", with
\* its value or error in opVal; timer: "off", "armed", "fired" or "cleared";
\* result: <<>> or <<the AutoResult the race settled with>>.
IdleRace == [st |-> "idle", op |-> None, opVal |-> None, timer |-> "off",
             result |-> <<>>]

RaceInit == races = [r \in RaceIds |-> IdleRace]

\* .then((value) => ({ ok: true, value }))
OnFulfilled(value) == [ok |-> TRUE, value |-> value]
\* .catch((error) => ({ ok: false, reason: "error", error }))
OnRejected(error) == [ok |-> FALSE, reason |-> "error", error |-> error]
\* setTimeout(() => resolve({ ok: false, reason: "timeout" }), ms)
TimeoutResult == [ok |-> FALSE, reason |-> "timeout"]

\* Variant: the promise that settles last decides.
SettleLast(current, tagged) == <<tagged>>
\* Promise.race([settledPromise, timeoutResult]): the first to settle decides, what
\* settles later is ignored
Settle(current, tagged) == IF current = <<>> THEN <<tagged>> ELSE current

\* Variant: settledPromise has no .catch, so a rejection rejects the race.
RejectionCaughtNot == FALSE
\* settledPromise ends in .catch(..), which turns a rejection into a result
RejectionCaught == TRUE

\* withAutoTimeout(promise, ms) is called with a promise that is still pending:
\* the timer is armed and the call suspends at the await.
RaceCallPending(r) ==
    /\ races[r].st = "idle"
    /\ races' = [races EXCEPT ![r] = [IdleRace EXCEPT !.st = "waiting", !.op = "pending",
                                                      !.timer = "armed"]]
    /\ UNCHANGED NotRace

\* withAutoTimeout is called with a promise that has already settled: its
\* reaction runs before any timer can fire, the call returns and `finally`
\* clears the timer.
RaceCallSettled(r) ==
    /\ races[r].st = "idle"
    /\ \/ \E v \in OpValues :
            races' = [races EXCEPT ![r] = [st |-> "returned", op |-> "resolved",
                                          opVal |-> v, timer |-> "cleared",
                                          result |-> Settle(<<>>, OnFulfilled(v))]]
       \/ \E e \in OpErrors :
            races' = [races EXCEPT ![r] =
                        IF RejectionCaught
                        THEN [st |-> "returned", op |-> "rejected", opVal |-> e,
                              timer |-> "cleared", result |-> Settle(<<>>, OnRejected(e))]
                        ELSE [st |-> "threw", op |-> "rejected", opVal |-> e,
                              timer |-> "cleared", result |-> <<>>]]
    /\ UNCHANGED NotRace

\* The call as it continues once the race has `result`: it returns the result
\* and `finally` clears the timer, if the call was still waiting.
Resumed(rc, result) ==
    IF rc.st = "waiting"
    THEN [rc EXCEPT !.st = "returned", !.result = result,
                    !.timer = IF @ = "armed" THEN "cleared" ELSE @]
    ELSE [rc EXCEPT !.result = result]

\* The wrapped operation resolves, before or after the call has returned.
OpResolve(r) ==
    /\ races[r].op = "pending"
    /\ \E v \in OpValues :
         races' = [races EXCEPT ![r] =
                     Resumed([@ EXCEPT !.op = "resolved", !.opVal = v],
                             Settle(@.result, OnFulfilled(v)))]
    /\ UNCHANGED NotRace

\* The wrapped operation rejects, before or after the call has returned.
OpReject(r) ==
    /\ races[r].op = "pending"
    /\ \E e \in OpErrors :
         races' = [races EXCEPT ![r] =
                     IF RejectionCaught \/ @.st # "waiting"
                     THEN Resumed([@ EXCEPT !.op = "rejected", !.opVal = e],
                                  Settle(@.result, OnRejected(e)))
                     ELSE [@ EXCEPT !.op = "rejected", !.opVal = e, !.st = "threw",
                                    !.timer = "cleared"]]
    /\ UNCHANGED NotRace

\* Variant: the timer's callback aborts the wrapped operation.
OpAbortedByTimeout(op) == "cancelled"
\* setTimeout(() => resolve({ ok: false, reason: "timeout" }), ms) resolves the
\* race's second promise and does nothing to `promise`
OpAfterTimeout(op) == op

\* The timer fires while the call is waiting; the operation is left running.
RaceTimerFire(r) ==
    /\ races[r].timer = "armed"
    /\ races' = [races EXCEPT ![r] =
                    Resumed([@ EXCEPT !.timer = "fired",
                                      !.op = OpAfterTimeout(races[r].op)],
                            Settle(@.result, TimeoutResult))]
    /\ UNCHANGED NotRace

(***************************************************************************)
(* Tool handlers: create_tab and close_tab in tools/tabs.ts,               *)
(* camofox_close_session in tools/session.ts (config.autoSave on)          *)
(***************************************************************************)
\* A tool call uses the withAutoTimeout call of the same name.  pc: "idle",
\* "creating" (at the await of client.createTab), "autoload" or "autosave" (at
\* the await of withAutoTimeout), "closing" (at the await of the remote close)
\* or "returned"; found: getTrackedTab returned a record; saved: <<>> or
\* <<the AutoResult withAutoTimeout returned>>; remote: the remote close,
\* "none", "pending", "ok" or "failed"; result: <<>> or <<the ToolResult>>.
IdleCall == [tool |-> None, pc |-> "idle", tabId |-> None, userId |-> None,
             found |-> FALSE, saved |-> <<>>, remote |-> "none", result |-> <<>>]

ToolInit ==
    /\ calls = [c \in RaceIds |-> IdleCall]
    /\ remote = <<>>

\* The codes the HTTP client fails a request with.
RemoteErrors == {"CONNECTION_REFUSED", "TAB_NOT_FOUND"}

\* okResult(payload): the payload's tabId and autoSaved, each <<>> when the
\* payload has no such property
OkResult(tabId, autoSaved) ==
    [isError |-> FALSE, code |-> None, tabId |-> tabId, autoSaved |-> autoSaved]
\* toErrorResult(error)
ToErrorResult(code) ==
    [isError |-> TRUE, code |-> code, tabId |-> <<>>, autoSaved |-> <<>>]

\* What the wrapped export-and-save resolves with: true after saveProfile, false
\* when the tab had no cookies.
SavedFlag == [v \in OpValues |-> v = "v1"]

\* Variant: a failed or late auto-save is reported as saved.
AutoSavedAlways(saved) == TRUE
\* autoSaved = saved.ok ? saved.value : false
AutoSaved(saved) == IF saved.ok THEN SavedFlag[saved.value] ELSE FALSE

\* withAutoTimeout(promise, AUTO_PROFILE_TIMEOUT_MS) as the handlers call it:
\* the wrapped async function is suspended at its first await.
PendingRace == [IdleRace EXCEPT !.st = "waiting", !.op = "pending", !.timer = "armed"]

\* The entries the handler's `finally` removes: removeTrackedTab(tabId) in
\* close_tab, clearTrackedTabsByUserId(userId) in camofox_close_session.
ClosedLocally(t, call) ==
    IF call.tool = "close_tab"
    THEN Drop(t, {call.tabId})
    ELSE Drop(t, {id \in DOMAIN t : t[id].userId = call.userId})

\* Variant: the entries are removed after the remote close, not in a `finally`.
AfterRemoteFailureKept(t, call) == t
\* try { await client.closeTab / closeSession } finally { remove }: the registry
\* once the remote close has thrown
AfterRemoteFailure(t, call) == ClosedLocally(t, call)

\* close_tab / camofox_close_session up to the await of withAutoTimeout:
\* getTrackedTab(tabId) stamps the record or throws TAB_NOT_FOUND, which the
\* handler's catch turns into an error result.
CloseCallFrom(c, tool, ids) ==
    /\ phase = "running"
    /\ calls[c].pc = "idle"
    /\ races[c].st = "idle"
    /\ \E id \in ids :
         IF IsTracked(tabs, id)
         THEN /\ tabs' = Touch(tabs, id, now)
              /\ lastError' = "none"
              /\ calls' = [calls EXCEPT ![c] =
                             [IdleCall EXCEPT !.tool = tool, !.pc = "autosave",
                                              !.tabId = id, !.userId = tabs[id].userId,
                                              !.found = TRUE]]
              /\ races' = [races EXCEPT ![c] = PendingRace]
         ELSE /\ tabs' = MissingTab(tabs, id)
              /\ lastError' = "TAB_NOT_FOUND"
              /\ calls' = [calls EXCEPT ![c] =
                             [IdleCall EXCEPT !.tool = tool, !.pc = "returned",
                                              !.tabId = id,
                                              !.result = <<ToErrorResult("TAB_NOT_FOUND")>>]]
              /\ UNCHANGED races
    /\ UNCHANGED <<issued, now, closeVars, removedBy, procVars>>
    /\ UNCHANGED <<profVars, remote>>

\* The ids the close tools are called with: every id the service issues and one
\* it never issued.
CloseIds == {TabIdSeq[i] : i \in 1..Len(TabIdSeq)} \cup {"t4"}

CloseTabCall(c) == CloseCallFrom(c, "close_tab", CloseIds)
CloseSessionCall(c) == CloseCallFrom(c, "close_session", CloseIds)

\* The close handler resumes after withAutoTimeout: it notes the AutoResult and
\* calls the remote close.  Had withAutoTimeout thrown, the handler's catch
\* would return the error without having called it.
CloseAfterAuto(c) ==
    /\ phase = "running"
    /\ calls[c].pc = "autosave"
    /\ races[c].st \in {"returned", "threw"}
    /\ calls' = [calls EXCEPT ![c] =
                   IF races[c].st = "returned"
                   THEN [@ EXCEPT !.pc = "closing", !.saved = races[c].result,
                                  !.remote = "pending"]
                   ELSE [@ EXCEPT !.pc = "returned",
                                  !.result = <<ToErrorResult("INTERNAL_ERROR")>>]]
    /\ UNCHANGED <<tabVars, profVars, raceVars, remote>>

\* The remote close resolves: the entries are removed and the handler returns
\* okResult({.., autoSaved}).
RemoteCloseOk(c) ==
    /\ phase = "running"
    /\ calls[c].pc = "closing"
    /\ remote' = ClosedLocally(remote, calls[c])
    /\ tabs' = ClosedLocally(tabs, calls[c])
    /\ MarkRemoved("close")
    /\ calls' = [calls EXCEPT ![c] =
                   [@ EXCEPT !.pc = "returned", !.remote = "ok",
                             !.result = <<OkResult(IF calls[c].tool = "close_tab"
                                                   THEN <<calls[c].tabId>> ELSE <<>>,
                                                   <<AutoSaved(calls[c].saved[1])>>)>>]]
    /\ UNCHANGED <<issued, now, lastError, closeVars, procVars>>
    /\ UNCHANGED <<profVars, raceVars>>

\* The remote close rejects: `finally` removes the entries, then the handler's
\* catch returns the error.
RemoteCloseFail(c) ==
    /\ phase = "running"
    /\ calls[c].pc = "closing"
    /\ UNCHANGED remote
    /\ tabs' = AfterRemoteFailure(tabs, calls[c])
    /\ MarkRemoved("close")
    /\ \E code \in RemoteErrors :
         calls' = [calls EXCEPT ![c] =
                     [@ EXCEPT !.pc = "returned", !.remote = "failed",
                               !.result = <<ToErrorResult(code)>>]]
    /\ UNCHANGED <<issued, now, lastError, closeVars, procVars>>
    /\ UNCHANGED <<profVars, raceVars>>

\* create_tab up to the await of client.createTab
CreateTabCall(c) ==
    /\ phase = "running"
    /\ calls[c].pc = "idle"
    /\ races[c].st = "idle"
    /\ \E u \in UserIds :
         calls' = [calls EXCEPT ![c] =
                     [IdleCall EXCEPT !.tool = "create_tab", !.pc = "creating",
                                      !.userId = u]]
    /\ UNCHANGED <<tabVars, profVars, raceVars, remote>>

\* client.createTab resolves with a fresh tab id: the handler builds the TabInfo
\* and calls trackTab; when that throws the handler's catch returns the error,
\* otherwise the auto-load starts.
CreateTabRemoteOk(c) ==
    /\ phase = "running"
    /\ calls[c].pc = "creating"
    /\ issued < Len(TabIdSeq)
    /\ LET id == TabIdSeq[issued + 1] IN
         /\ remote' = Put(remote, id, [userId |-> calls[c].userId])
         /\ TrackTab([tabId |-> id, url |-> "A", userId |-> calls[c].userId,
                      lastActivity |-> now, visitedUrls |-> <<"A">>,
                      toolCalls |-> 1, refsCount |-> 0])
         /\ issued' = issued + 1
         /\ IF id \in DOMAIN tabs'
            THEN /\ calls' = [calls EXCEPT ![c] =
                                [@ EXCEPT !.pc = "autoload", !.tabId = id, !.found = TRUE]]
                 /\ races' = [races EXCEPT ![c] = PendingRace]
                 /\ UNCHANGED removedBy
            ELSE /\ calls' = [calls EXCEPT ![c] =
                                [@ EXCEPT !.pc = "returned", !.tabId = id,
                                          !.result = <<ToErrorResult("MAX_TABS_EXCEEDED")>>]]
                 /\ removedBy' = [removedBy EXCEPT ![id] = "refused"]
                 /\ UNCHANGED races
    /\ UNCHANGED <<now, closeVars, procVars>>
    /\ UNCHANGED profVars

\* client.createTab rejects: nothing is tracked, the handler returns the error.
CreateTabRemoteFail(c) ==
    /\ phase = "running"
    /\ calls[c].pc = "creating"
    /\ calls' = [calls EXCEPT ![c] =
                   [@ EXCEPT !.pc = "returned",
                             !.result = <<ToErrorResult("CONNECTION_REFUSED")>>]]
    /\ UNCHANGED <<tabVars, profVars, raceVars, remote>>

\* create_tab resumes after withAutoTimeout, whose result it ignores, and
\* returns okResult({ tabId, url }).
CreateAfterAuto(c) ==
    /\ phase = "running"
    /\ calls[c].pc = "autoload"
    /\ races[c].st \in {"returned", "threw"}
    /\ calls' = [calls EXCEPT ![c] =
                   IF races[c].st = "returned"
                   THEN [@ EXCEPT !.pc = "returned", !.saved = races[c].result,
                                  !.result = <<OkResult(<<calls[c].tabId>>, <<>>)>>]
                   ELSE [@ EXCEPT !.pc = "returned",
                                  !.result = <<ToErrorResult("INTERNAL_ERROR")>>]]
    /\ UNCHANGED <<tabVars, profVars, raceVars, remote>>

(***************************************************************************)
(* Specifications                                                          *)
(***************************************************************************)
Init == TabInit /\ ProfInit /\ RaceInit /\ ToolInit

\* The registry's calls, the sweep and the drain; the closes they start stay pending.
RegistryNext ==
    \/ RegisterSolo
    \/ RemoveTrackedTab
    \/ GetTrackedTab
    \/ ClearTrackedTabsByUserId
    \/ IncrementToolCall
    \/ UpdateTabUrl
    \/ UpdateRefsCount
    \/ Tick
    \/ Sweep
    \/ Signal

SpecRegistry == Init /\ [][RegistryNext]_vars

\* Registrations against the capacity, with removals and the sweep freeing slots.
CapacityNext ==
    \/ RegisterLong
    \/ RemoveTrackedTab
    \/ GetTrackedTab
    \/ Tick
    \/ Sweep

SpecCapacity == Init /\ [][CapacityNext]_vars

\* Registration and use of sessions while the clock advances.
ActivityNext ==
    \/ RegisterSolo
    \/ GetTrackedTab
    \/ IncrementToolCall
    \/ UpdateTabUrl
    \/ UpdateRefsCount
    \/ RemoveTrackedTab
    \/ Tick

SpecActivity == Init /\ [][ActivityNext]_vars

\* Navigation: sessions are opened and taken from page to page.
HistoryNext ==
    \/ RegisterSolo
    \/ UpdateTabUrlLong
    \/ GetTrackedTab
    \/ RemoveTrackedTab
    \/ Tick

SpecHistory == Init /\ [][HistoryNext]_vars

\* The life of a session: registration, activity, removal, eviction and shutdown,
\* with the closes settling.
LifeNext ==
    \/ Register
    \/ RemoveTrackedTab
    \/ GetTrackedTab
    \/ ClearTrackedTabsByUserId
    \/ Tick
    \/ Sweep
    \/ CloseResolve
    \/ CloseReject
    \/ CloseTimeout
    \/ Signal
    \/ ShutdownTimer

SpecTabs == Init /\ [][LifeNext]_vars

\* The shutdown drain with closes that may hang: timers that are armed fire.
DrainNext ==
    \/ RegisterSolo
    \/ GetTrackedTab
    \/ Tick
    \/ Sweep
    \/ CloseResolve
    \/ CloseReject
    \/ CloseTimeout
    \/ Signal
    \/ ShutdownTimer

SpecDrainFair == Init /\ [][DrainNext]_vars /\ WF_vars(ShutdownTimer)

\* Calls of withAutoTimeout with operations that resolve, reject or hang.
RaceNext ==
    \/ \E r \in RaceIds : RaceCallPending(r)
    \/ \E r \in RaceIds : RaceCallSettled(r)
    \/ \E r \in RaceIds : OpResolve(r)
    \/ \E r \in RaceIds : OpReject(r)
    \/ \E r \in RaceIds : RaceTimerFire(r)

SpecRace == Init /\ [][RaceNext]_vars

\* The same with the event loop running: a timer that stays armed fires.
SpecRaceFair ==
    Init /\ [][RaceNext]_vars /\ \A r \in RaceIds : WF_vars(RaceTimerFire(r))

\* The profile store: concurrent saves, readers and a process kill.

ProfNext ==
    \/ \E p \in Savers : SaveCall(p)
    \/ \E p \in Savers : SaveEnter(p)
    \/ \E p \in Savers : SaveReadExisting(p)
    \/ \E p \in Savers : SaveWriteBegin(p)
    \/ \E p \in Savers : SaveWriteEnd(p)
    \/ \E p \in Savers : SaveRename(p)
    \/ LoadProfile
    \/ Crash
    \/ Tick

SpecProfiles == Init /\ [][ProfNext]_vars

\* Saves with options and loads of two profiles, within one tick of the clock.
RoundTripNext ==
    \/ \E p \in Savers : SaveCallOpt(p)
    \/ \E p \in Savers : SaveEnter(p)
    \/ \E p \in Savers : SaveReadExisting(p)
    \/ \E p \in Savers : SaveWriteBegin(p)
    \/ \E p \in Savers : SaveWriteEnd(p)
    \/ \E p \in Savers : SaveRename(p)
    \/ LoadProfile

SpecRoundTrip == Init /\ [][RoundTripNext]_vars

\* Profile files written by saves and by other writers, and loads of them.
DamageNext ==
    \/ ForeignWrite
    \/ \E p \in Savers : SaveCall(p)
    \/ \E p \in Savers : SaveEnter(p)
    \/ \E p \in Savers : SaveReadExisting(p)
    \/ \E p \in Savers : SaveWriteBegin(p)
    \/ \E p \in Savers : SaveWriteEnd(p)
    \/ \E p \in Savers : SaveRename(p)
    \/ LoadProfile
    \/ Crash

SpecDamage == Init /\ [][DamageNext]_vars

\* Calls of the store with well-formed and malformed arguments.
ValidateNext ==
    \/ \E p \in Savers : SaveCallAny(p)
    \/ \E p \in Savers : SaveEnter(p)
    \/ \E p \in Savers : SaveReadExisting(p)
    \/ \E p \in Savers : SaveWriteBegin(p)
    \/ \E p \in Savers : SaveWriteEnd(p)
    \/ \E p \in Savers : SaveRename(p)
    \/ LoadProfileAny
    \/ DeleteProfileAny

SpecValidate == Init /\ [][ValidateNext]_vars

\* The store on a filesystem whose calls can fail.
FaultsNext ==
    \/ \E p \in Savers : SaveCall(p)
    \/ \E p \in Savers : SaveEnsureFail(p)
    \/ \E p \in Savers : SaveEnter(p)
    \/ \E p \in Savers : SaveReadExisting(p)
    \/ \E p \in Savers : SaveWriteBegin(p)
    \/ \E p \in Savers : SaveWriteFail(p)
    \/ \E p \in Savers : SaveWriteEnd(p)
    \/ \E p \in Savers : SaveRename(p)
    \/ \E p \in Savers : SaveRenameFail(p)
    \/ LoadProfile
    \/ LoadFault
    \/ DeleteProfile
    \/ DeleteFault

SpecFaults == Init /\ [][FaultsNext]_vars

\* The registry in processes started with and without a TTL.
InitAnyTtl == (\E ttl \in TtlValues : TabInitAt(ttl)) /\ ProfInit /\ RaceInit /\ ToolInit

TtlNext ==
    \/ RegisterSolo
    \/ GetTrackedTab
    \/ UpdateTabUrl
    \/ Tick
    \/ Sweep
    \/ CloseResolve
    \/ CloseReject
    \/ CloseTimeout

SpecTtl == InitAnyTtl /\ [][TtlNext]_vars

\* Three concurrent saves of two profiles, on a filesystem whose writes can fail.
QueueNext ==
    \/ \E p \in SaversLong : SaveCallPlain(p)
    \/ \E p \in SaversLong : SaveEnter(p)
    \/ \E p \in SaversLong : SaveReadExisting(p)
    \/ \E p \in SaversLong : SaveWriteBegin(p)
    \/ \E p \in SaversLong : SaveWriteFail(p)
    \/ \E p \in SaversLong : SaveWriteEnd(p)
    \/ \E p \in SaversLong : SaveRename(p)

SpecQueue == Init /\ [][QueueNext]_vars

\* A save of "p1" that keeps running beside a save of "p2" that may stall at any
\* point, also while it holds its mutex.
SaveCallOf(p, id) ==
    SaveCallFrom(p, {id}, {"u1"}, {<<[name |-> <<"c1">>, expires |-> Undefined]>>},
                 {Undefined})

SaveStep(p) ==
    \/ SaveEnter(p)
    \/ SaveReadExisting(p)
    \/ SaveWriteBegin(p)
    \/ SaveWriteEnd(p)
    \/ SaveRename(p)

ApartNext ==
    \/ SaveCallOf("s1", "p1")
    \/ SaveCallOf("s2", "p2")
    \/ \E p \in Savers : SaveStep(p)
    \/ LoadProfile
    \/ Tick

SpecApartFair == Init /\ [][ApartNext]_vars /\ WF_vars(SaveStep("s1"))

\* Loads and deletes with ids of every shape, in an empty profiles directory.
LoadProfileSample == \E id \in IdSamples : LoadProfileOn(id)
DeleteProfileSample == \E id \in IdSamples : DeleteProfileOn(id)

IdsNext ==
    \/ LoadProfileSample
    \/ DeleteProfileSample

SpecIds == Init /\ [][IdsNext]_vars

\* Listings of a directory that saves, other writers and a process kill have
\* filled before the listing starts.
DirectoryWrite ==
    /\ listing.pc = "idle"
    /\ \/ ForeignWrite
       \/ ForeignWriteStray
       \/ \E p \in Savers : SaveCall(p)
       \/ \E p \in Savers : SaveEnter(p)
       \/ \E p \in Savers : SaveReadExisting(p)
       \/ \E p \in Savers : SaveWriteBegin(p)
       \/ \E p \in Savers : SaveWriteEnd(p)
       \/ \E p \in Savers : SaveRename(p)

ListNext ==
    \/ DirectoryWrite
    \/ Crash
    \/ ListStart
    \/ ListVisit
    \/ ListReturn

SpecList == Init /\ [][ListNext]_vars


\* Tool calls running side by side: tabs that are already open, create_tab,
\* close_tab and camofox_close_session with their auto-load and auto-save, and
\* the remote service answering or failing.
ToolStep(c) ==
    \/ CreateTabCall(c)
    \/ CreateTabRemoteOk(c)
    \/ CreateTabRemoteFail(c)
    \/ CreateAfterAuto(c)
    \/ CloseTabCall(c)
    \/ CloseSessionCall(c)
    \/ CloseAfterAuto(c)
    \/ RemoteCloseOk(c)
    \/ RemoteCloseFail(c)
    \/ OpResolve(c)
    \/ OpReject(c)
    \/ RaceTimerFire(c)

ToolsNext ==
    \/ Register
    \/ \E c \in CallIds : ToolStep(c)

\* The same with the tabs that are already open all of one user.
ToolsSoloNext ==
    \/ RegisterSolo
    \/ \E c \in CallIds : ToolStep(c)

SpecTools == Init /\ [][ToolsNext]_vars

\* The timer of an armed deadline fires, and a handler whose await has settled
\* resumes.
SpecToolsFair ==
    /\ Init
    /\ [][ToolsSoloNext]_vars
    /\ \A c \in CallIds : /\ WF_vars(RaceTimerFire(c))
                          /\ WF_vars(CloseAfterAuto(c))
                          /\ WF_vars(CreateAfterAuto(c))


\* Tabs of two users that are opened, used and cleared by user; nothing else
\* removes a tab.
ClearNext ==
    \/ Register
    \/ GetTrackedTab
    \/ UpdateTabUrl
    \/ Tick
    \/ ClearTrackedTabsByUserId

SpecClear == Init /\ [][ClearNext]_vars


\* Saves of one profile over whatever another writer left at its path, with a
\* clock that ticks.
OverwriteNext ==
    \/ ForeignWriteTo({"p1"})
    \/ \E p \in Savers : SaveCallOf(p, "p1")
    \/ \E p \in Savers : SaveEnter(p)
    \/ \E p \in Savers : SaveReadExisting(p)
    \/ \E p \in Savers : SaveWriteBegin(p)
    \/ \E p \in Savers : SaveWriteEnd(p)
    \/ \E p \in Savers : SaveRename(p)
    \/ LoadProfile
    \/ Tick

SpecOverwrite == Init /\ [][OverwriteNext]_vars


\* The steps of a save inside its critical section, failures included.
SectionStep(p) ==
    \/ SaveReadExisting(p)
    \/ SaveWriteBegin(p)
    \/ SaveWriteFail(p)
    \/ SaveWriteEnd(p)
    \/ SaveRename(p)
    \/ SaveRenameFail(p)

\* Three callers saving one profile, with writes and renames that may fail; a
\* critical section that has started goes on to its end.
QueueFaultsNext ==
    \/ \E p \in SaversLong : SaveCallOf(p, "p1")
    \/ \E p \in SaversLong : SaveEnter(p)
    \/ \E p \in SaversLong : SectionStep(p)

SpecQueueFair ==
    /\ Init
    /\ [][QueueFaultsNext]_vars
    /\ \A p \in SaversLong : WF_vars(SectionStep(p))


\* Saves and deletes of one profile side by side, with a clock that ticks.
DeleteRaceNext ==
    \/ \E p \in Savers : SaveCallOf(p, "p1")
    \/ \E p \in Savers : SaveStep(p)
    \/ DeleteProfileOn("p1")
    \/ LoadProfileOn("p1")
    \/ Tick

SpecDeleteRace == Init /\ [][DeleteRaceNext]_vars

\* A close_tab call beside the idle sweep and the shutdown drain.
CloseRaceStep(c) ==
    \/ CloseTabCall(c)
    \/ CloseAfterAuto(c)
    \/ RemoteCloseOk(c)
    \/ RemoteCloseFail(c)
    \/ OpResolve(c)
    \/ OpReject(c)
    \/ RaceTimerFire(c)

CloseRaceNext ==
    \/ RegisterSolo
    \/ Tick
    \/ Sweep
    \/ Signal
    \/ ShutdownTimer
    \/ CloseResolve
    \/ CloseReject
    \/ CloseTimeout
    \/ CloseRaceStep("r1")

SpecCloseRace == Init /\ [][CloseRaceNext]_vars

(***************************************************************************)
(* Properties                                                              *)
(***************************************************************************)
LiveIds == DOMAIN tabs

\* C1: in every reachable state of the registry the number of live sessions is
\* at most MAX_TABS.
C1_LiveWithinCapacity == Cardinality(LiveIds) <= MAX_TABS

\* C1 witness: the registry is full and a further register has been refused.
C1_Witness == Cardinality(LiveIds) = MAX_TABS /\ lastError = "MAX_TABS_EXCEEDED"

\* The record a save call writes, as the text of a file
RecordOf(p) == File(Serialize(ProfileOf(saves[p])))

\* C2: the file at a profile's final path is at every moment absent or one
\* complete record, and it changes only by the rename of a save, to the complete
\* record of that save; so a load, whenever it runs (during a save, or after a kill
\* that left a partly written temporary file), returns a record or not-found.
C2_FinalPathNeverPartial ==
    /\ [](\A id \in ProfileIds :
            /\ disk[ProfilePath(id)].exists =>
                  /\ Len(disk[ProfilePath(id)].chunks) = 2
                  /\ Loaded(id).ok
                  /\ Loaded(id).value.metadata.cookieCount = Len(Loaded(id).value.cookies)
            /\ ~disk[ProfilePath(id)].exists => Loaded(id).code = "PROFILE_NOT_FOUND")
    /\ [](\A i \in 1..Len(lastLoad) : lastLoad[i].res \in {"ok", "PROFILE_NOT_FOUND"})
    /\ [][\A id \in ProfileIds :
            disk'[ProfilePath(id)] # disk[ProfilePath(id)] =>
              \E p \in Savers :
                  /\ saves[p].pc = "rename" /\ saves[p].id = id
                  /\ disk'[ProfilePath(id)] = RecordOf(p)]_vars

\* C2 witness: the process was killed between the first write to the temporary
\* file and the rename, no save has started since, and a load returned the record
\* stored before.
C2_Witness ==
    /\ crashes = 1
    /\ \A p \in Savers : saves[p].pc = "idle"
    /\ disk[TmpPath(ProfilePath("p1"))].exists
    /\ Len(disk[TmpPath(ProfilePath("p1"))].chunks) = 1
    /\ lastLoad = <<[id |-> "p1", res |-> "ok"]>>
    /\ Len(disk[TmpPath(ProfilePath("p1"))].chunks[1]["cookies"])
         # Len(Loaded("p1").value.cookies)

\* C3: two save calls of the same profile id that have both finished have both
\* completed, and the final file is exactly the complete record of one of them:
\* cookies and cookieCount come from the same call.
C3_ConcurrentSavesNoMix ==
    \A p, q \in Savers :
        (/\ p # q
         /\ saves[p].pc \in {"done", "failed"} /\ saves[q].pc \in {"done", "failed"}
         /\ saves[p].id = saves[q].id)
        => /\ saves[p].pc = "done" /\ saves[q].pc = "done"
           /\ disk[ProfilePath(saves[p].id)] \in {RecordOf(p), RecordOf(q)}
           /\ Loaded(saves[p].id).value.metadata.cookieCount
                = Len(Loaded(saves[p].id).value.cookies)

\* C3 witness: two saves of the same id with different cookies overlapped (one had
\* to wait for the mutex) and both have completed.
C3_Witness ==
    \E p, q \in Savers :
        /\ p # q
        /\ saves[p].pc = "done" /\ saves[q].pc = "done"
        /\ saves[p].id = saves[q].id
        /\ saves[p].cookies # saves[q].cookies
        /\ saves[q].waited
        /\ disk[ProfilePath(saves[q].id)] = RecordOf(q)

\* C4: every save that replaces the record of a profile id stores its own save time
\* as updatedAt and keeps the createdAt of the record it replaces; the first save
\* of the id stores its own save time as createdAt.
C4_CreatedAtKept ==
    [][\A id \in ProfileIds :
         disk'[ProfilePath(id)] # disk[ProfilePath(id)] =>
           \E p \in Savers :
               /\ saves[p].pc = "rename" /\ saves[p].id = id
               /\ Loaded(id)'.ok
               /\ Loaded(id)'.value.metadata.updatedAt = saves[p].now
               /\ Loaded(id)'.value.metadata.createdAt =
                     IF Loaded(id).ok THEN Loaded(id).value.metadata.createdAt
                     ELSE saves[p].now]_vars

\* C4 witness: of two overlapping saves of one id at different times, the second
\* has replaced the record of the first: createdAt is the first save's time and
\* updatedAt the second's.
C4_Witness ==
    \E p, q \in Savers :
        /\ p # q
        /\ saves[p].pc = "done" /\ saves[q].pc = "done" /\ saves[q].waited
        /\ saves[p].id = "p1" /\ saves[q].id = "p1"
        /\ saves[p].now < saves[q].now
        /\ Loaded("p1").ok
        /\ Loaded("p1").value.metadata.createdAt = saves[p].now
        /\ Loaded("p1").value.metadata.updatedAt = saves[q].now

\* C5: a sweep step removes exactly the live sessions whose idle time exceeds the
\* TTL; every session idle for at most the TTL stays live with its record unchanged.
C5_SweepRemovesExactlyIdle ==
    [][Sweep =>
         /\ DOMAIN tabs' = {id \in LiveIds : now - tabs[id].lastActivity <= TAB_TTL_MS}
         /\ \A id \in DOMAIN tabs' : tabs'[id] = tabs[id]]_vars

\* C5 witness: at the first moment an eviction is possible, a sweep has evicted one
\* session and a session idle for exactly the TTL is still live.
C5_Witness ==
    /\ now = TAB_TTL_MS + 1
    /\ \E a \in TabIds, b \in LiveIds :
         /\ removedBy[a] = "sweep"
         /\ tabs[b].lastActivity = now - TAB_TTL_MS

\* C6: the close callback is invoked once, with the session's id and owner, for
\* each session a sweep evicts (and for each the drain removes), in the step that
\* removes it; it is never invoked for any other session and never a second time.
C6_CloseOncePerEviction ==
    /\ [](\A id \in TabIds :
            Len(closeCalls[id]) = IF removedBy[id] \in {"sweep", "drain"} THEN 1 ELSE 0)
    /\ [][\A id \in TabIds :
            closeCalls'[id] # closeCalls[id] =>
              /\ id \in LiveIds /\ id \notin DOMAIN tabs'
              /\ closeCalls'[id] = Append(closeCalls[id], tabs[id].userId)]_vars

\* C6 witness: a session was evicted by a sweep, its close was requested once, and
\* a later sweep and a drain have run since.
C6_Witness ==
    \E a, b, c \in TabIds :
        /\ removedBy[a] = "sweep" /\ Len(closeCalls[a]) = 1 /\ closeRaw[a] = "ok"
        /\ removedBy[b] = "sweep" /\ closeRaw[b] = "pending"
        /\ removedBy[c] = "drain"

\* C7: whatever the close does (succeed, fail, time out, never complete), a session
\* whose eviction close was started is absent from the registry, no failure escapes
\* (the process does not crash), and registering succeeds whenever fewer than
\* MAX_TABS sessions are live, closes in flight or not.
C7_EvictionIgnoresCloseOutcome ==
    /\ phase # "crashed"
    /\ \A id \in TabIds : closeWrap[id] # "none" => id \notin LiveIds
    /\ (phase = "running" /\ issued < Len(TabIdSeq)
          /\ Cardinality(LiveIds) < MAX_TABS)
        => ENABLED (Register /\ lastError' = "none")

\* C7 witness: an evicted session's close timed out and is still pending, another
\* eviction's close failed, and the slot freed was taken by a later tab.
C7_Witness ==
    /\ removedBy["t1"] = "sweep" /\ closeWrap["t1"] = "timeout" /\ closeRaw["t1"] = "pending"
    /\ removedBy["t2"] = "sweep" /\ closeWrap["t2"] = "failed"
    /\ "t3" \in LiveIds

\* C8: a call of withAutoTimeout yields exactly one outcome, decided by what
\* settles first while the call waits: the operation's value if it resolves, its
\* error if it rejects, timeout if the timer fires; and every waiting call gets
\* its outcome, also when the operation never settles.
C8_ExactlyOneOutcome ==
    /\ [](\A r \in RaceIds :
            /\ (races[r].st = "returned") <=> (races[r].result # <<>>)
            /\ races[r].st = "waiting" =>
                  races[r].op = "pending" /\ races[r].timer = "armed"
            /\ races[r].result # <<>> =>
                  \/ /\ races[r].result = <<OnFulfilled(races[r].opVal)>>
                     /\ races[r].op = "resolved" /\ races[r].timer = "cleared"
                  \/ /\ races[r].result = <<OnRejected(races[r].opVal)>>
                     /\ races[r].op = "rejected" /\ races[r].timer = "cleared"
                  \/ /\ races[r].result = <<TimeoutResult>>
                     /\ races[r].timer = "fired")
    /\ [][\A r \in RaceIds :
            (races[r].st = "waiting" /\ races'[r] # races[r]) =>
              /\ races'[r].st = "returned"
              /\ races'[r].op = "resolved" =>
                    races'[r].result = <<OnFulfilled(races'[r].opVal)>>
              /\ races'[r].op = "rejected" =>
                    races'[r].result = <<OnRejected(races'[r].opVal)>>
              /\ races'[r].timer = "fired" =>
                    races'[r].result = <<TimeoutResult>>]_vars
    /\ \A r \in RaceIds : (races[r].st = "waiting") ~> (races[r].st = "returned")

\* C8 witness: one call returned the operation's value, one its error, and one
\* timed out while its operation is still pending.
C8_Witness ==
    \E a, b, c \in RaceIds :
        /\ races[a].result = <<OnFulfilled("v2")>> /\ races[a].timer = "cleared"
        /\ races[b].result = <<OnRejected("e1")>> /\ races[b].timer = "cleared"
        /\ races[c].result = <<TimeoutResult>> /\ races[c].op = "pending"

\* The AutoResult values
AutoResults ==
    {OnFulfilled(v) : v \in OpValues} \cup {OnRejected(e) : e \in OpErrors}
        \cup {TimeoutResult}

\* C9: a call of withAutoTimeout never throws: what it returns is a tagged result,
\* and an operation that resolves or rejects after the outcome was returned changes
\* neither the outcome nor the call.
C9_NeverThrows ==
    /\ [](\A r \in RaceIds :
            /\ races[r].st # "threw"
            /\ \A i \in 1..Len(races[r].result) : races[r].result[i] \in AutoResults)
    /\ [][\A r \in RaceIds :
            races[r].st = "returned" =>
              /\ races'[r].st = "returned"
              /\ races'[r].result = races[r].result]_vars

\* C9 witness: after one call timed out its operation rejected, after another timed
\* out its operation resolved, and a third returned the error of its operation.
C9_Witness ==
    \E a, b, c \in RaceIds :
        /\ races[a].result = <<TimeoutResult>> /\ races[a].op = "rejected"
        /\ races[b].result = <<TimeoutResult>> /\ races[b].op = "resolved"
        /\ races[c].result = <<OnRejected("e1")>> /\ races[c].st = "returned"

\* C12: getTrackedTab, updateTabUrl, incrementToolCall and updateRefsCount on an id
\* that is not live fail with TAB_NOT_FOUND and leave the registry as it was:
\* no record is created and no record changes.
C12_UnknownIdFailsAndChangesNothing ==
    [][\A id \in TabIds \ LiveIds :
         (\/ GetTrackedTabOn(id)
          \/ IncrementToolCallOn(id)
          \/ \E url \in Urls : UpdateTabUrlOn(id, url)
          \/ \E n \in RefCounts : UpdateRefsCountOn(id, n))
         => lastError' = "TAB_NOT_FOUND" /\ tabs' = tabs]_vars

\* C12 witness: a call on a session that a sweep had evicted failed with
\* TAB_NOT_FOUND while another session is live and idle since before.
C12_Witness ==
    /\ lastError = "TAB_NOT_FOUND"
    /\ removedBy["t1"] = "sweep"
    /\ "t2" \in LiveIds /\ tabs["t2"].lastActivity < now

\* C13: a register attempted while MAX_TABS sessions are live fails with
\* MAX_TABS_EXCEEDED and leaves the registry unchanged; a register attempted while
\* fewer are live, in particular after a removal, succeeds and adds the session.
C13_RefusedAtCapacityOnly ==
    [][issued' # issued =>
         IF Cardinality(LiveIds) = MAX_TABS
         THEN lastError' = "MAX_TABS_EXCEEDED" /\ tabs' = tabs
         ELSE /\ lastError' = "none"
              /\ DOMAIN tabs' = LiveIds \cup {TabIdSeqLong[issued + 1]}
              /\ \A id \in LiveIds : tabs'[id] = tabs[id]]_vars

\* C13 witness: with t1 and t2 live the registration of t3 was refused; t1 was then
\* removed and the registration of t4 succeeded.
C13_Witness ==
    /\ removedBy["t3"] = "refused"
    /\ LiveIds = {"t2", "t4"}
    /\ removedBy["t1"] = "none"
    /\ lastError = "none"

\* C14: with a clock that only moves forward, a live session's lastActivity never
\* decreases and never runs ahead of the clock: trackTab stores the current time
\* whatever the caller passed, every successful getTrackedTab, updateTabUrl,
\* incrementToolCall and updateRefsCount stores the current time, and a call on one
\* session leaves the other sessions' records as they were.
C14_LastActivityMonotone ==
    /\ [](\A id \in LiveIds : tabs[id].lastActivity <= now)
    /\ [][/\ now' >= now
          /\ \A id \in LiveIds \cap DOMAIN tabs' :
                tabs'[id].lastActivity >= tabs[id].lastActivity
          /\ \A id \in DOMAIN tabs' \ LiveIds : tabs'[id].lastActivity = now
          /\ \A id \in LiveIds :
                (\/ GetTrackedTabOn(id)
                 \/ IncrementToolCallOn(id)
                 \/ \E url \in Urls : UpdateTabUrlOn(id, url)
                 \/ \E n \in RefCounts : UpdateRefsCountOn(id, n))
                => /\ tabs'[id].lastActivity = now
                   /\ \A o \in LiveIds \ {id} : tabs'[o] = tabs[o]]_vars

\* C14 witness: a session registered earlier was used again later and carries
\* the later time, while another live session still carries an older time.
C14_Witness ==
    /\ now = 2
    /\ "t1" \in LiveIds /\ tabs["t1"].toolCalls = 2 /\ tabs["t1"].lastActivity = 2
    /\ "t2" \in LiveIds /\ tabs["t2"].lastActivity = 1

\* C15: every live session's visitedUrls has at most VISITED_URLS_LIMIT entries,
\* and an updateTabUrl with a url that is new to a full history drops the oldest
\* entry: the new history is the old one without its first entry, followed by
\* the new url.
C15_VisitedUrlsCapped ==
    /\ [](\A id \in LiveIds : Len(tabs[id].visitedUrls) <= VISITED_URLS_LIMIT)
    /\ [][\A id \in LiveIds, url \in UrlsLong :
            (/\ UpdateTabUrlOn(id, url)
             /\ Len(tabs[id].visitedUrls) = VISITED_URLS_LIMIT
             /\ \A i \in 1..Len(tabs[id].visitedUrls) : tabs[id].visitedUrls[i] # url)
            => tabs'[id].visitedUrls = Append(Tail(tabs[id].visitedUrls), url)]_vars

\* C15 witness: a session opened at A went on to B and then to C: A, the oldest
\* entry, is gone.
C15_Witness ==
    \E id \in LiveIds :
        tabs[id].visitedUrls = <<"B", "C">> /\ tabs[id].url = "C"

\* The newest VISITED_URLS_LIMIT entries of a history
Newest(h) ==
    IF Len(h) <= VISITED_URLS_LIMIT THEN h
    ELSE SubSeq(h, Len(h) - VISITED_URLS_LIMIT + 1, Len(h))

\* C16, as stated: updateTabUrl(id, url) on a live session sets url and appends url
\* to visitedUrls exactly when url is not the last entry, then keeps the newest
\* VISITED_URLS_LIMIT entries.
C16_AppendsUnlessLast ==
    [][\A id \in LiveIds, url \in UrlsLong :
         UpdateTabUrlOn(id, url) =>
           LET v == tabs[id].visitedUrls
           IN  /\ tabs'[id].url = url
               /\ tabs'[id].visitedUrls =
                     Newest(IF v # <<>> /\ v[Len(v)] = url THEN v ELSE Append(v, url))]_vars

\* C16, amended: updateTabUrl(id, url) on a live session sets url and appends url
\* to visitedUrls exactly when url occurs nowhere in visitedUrls, then keeps the
\* newest VISITED_URLS_LIMIT entries; A, B, C, C with a limit of 2 gives [B, C].
C16_AppendsUnlessPresent ==
    [][\A id \in LiveIds, url \in UrlsLong :
         UpdateTabUrlOn(id, url) =>
           LET v == tabs[id].visitedUrls
           IN  /\ tabs'[id].url = url
               /\ tabs'[id].visitedUrls =
                     Newest(IF \E i \in 1..Len(v) : v[i] = url THEN v ELSE Append(v, url))]_vars

\* C16 witness: a session opened at A went to B and back to A: A is the current
\* url, and the history, in which A occurred already, still ends with B.
C16_Witness ==
    \E id \in LiveIds :
        tabs[id].url = "A" /\ tabs[id].visitedUrls = <<"A", "B">>

\* C11: the step in which a shutdown drain starts empties the registry, and in
\* that same step the close callback is invoked for each session that was live,
\* with its owner, for the first and only time; no other session's close is
\* invoked.
C11_DrainEmptiesRegistryFirst ==
    [][\A s \in Signals :
         (drains[s].st = "idle" /\ drains'[s].st # "idle") =>
           /\ tabs' = <<>>
           /\ drains'[s].ids = LiveIds
           /\ \A id \in LiveIds :
                 /\ closeCalls'[id] = <<tabs[id].userId>>
                 /\ closeWrap'[id] = "pending"
           /\ \A id \in TabIds \ LiveIds : closeCalls'[id] = closeCalls[id]]_vars

\* C11 witness: a drain started with two live sessions of different owners; the
\* registry is empty while both closes are still pending.
C11_Witness ==
    \E s \in Signals :
        /\ phase = "running"
        /\ drains[s].st = "waiting" /\ drains[s].ids = {"t1", "t2"}
        /\ tabs = <<>>
        /\ closeCalls["t1"] # closeCalls["t2"]
        /\ Len(closeCalls["t1"]) = 1 /\ Len(closeCalls["t2"]) = 1
        /\ closeWrap["t1"] = "pending" /\ closeWrap["t2"] = "pending"

DrainStarted == \E s \in Signals : drains[s].st = "waiting"

\* C10: once a shutdown drain has started the process exits: as soon as all the
\* closes of a drain have settled or its budget timer has fired, and never later,
\* even when closes hang or fail.
C10_DrainReachesExit ==
    /\ [](phase = "running" =>
            \A s \in Signals :
                drains[s].st = "waiting" =>
                  /\ drains[s].timer = "armed"
                  /\ \E id \in drains[s].ids : closeWrap[id] = "pending")
    /\ (DrainStarted ~> phase = "exited")

\* C10 witness: the process exited on the budget timer while a close was hanging.
C10_Witness ==
    /\ phase = "exited"
    /\ \E s \in Signals :
         /\ drains[s].timer = "fired"
         /\ \E id \in drains[s].ids : closeRaw[id] = "pending" /\ closeWrap[id] = "pending"

\* The save call p returns in this step.
SaveReturns(p) == saves[p].pc = "rename" /\ saves'[p].pc = "done"

\* C17: once saveProfile(dir, id, owner, cookies) has returned, loadProfile(dir, id)
\* returns a record equal to the one the save returned, with the same cookies,
\* profileId = id, the owner's id and cookieCount = the number of cookies, and it
\* keeps returning that record until another save of that id returns.
C17_SaveThenLoadRoundTrip ==
    [][\A p \in Savers :
         IF SaveReturns(p)
         THEN LET r == Loaded(saves[p].id)'
              IN  /\ r.ok
                  /\ r.value = ProfileOf(saves[p])
                  /\ r.value.cookies = saves[p].cookies
                  /\ r.value.profileId = saves[p].id
                  /\ r.value.userId = saves[p].userId
                  /\ r.value.metadata.cookieCount = Len(saves[p].cookies)
         ELSE saves[p].pc = "done" /\ saves'[p].pc = "done" =>
                \/ Loaded(saves[p].id)' = Loaded(saves[p].id)
                \/ \E q \in Savers : SaveReturns(q) /\ saves[q].id = saves[p].id]_vars

\* A save of two cookies, one without `expires`, and without a description has
\* returned, and the load of its id since then gives its record.
C17_Witness ==
    \E p \in Savers :
      /\ saves[p].pc = "done"
      /\ Len(saves[p].cookies) = 2
      /\ saves[p].description = Undefined
      /\ lastLoad = <<[id |-> saves[p].id, res |-> "ok"]>>
      /\ Loaded(saves[p].id).value = ProfileOf(saves[p])
      /\ \E q \in Savers : q # p /\ saves[q].pc = "done" /\ saves[q].id # saves[p].id
\* The text of the file is damaged for a load of `id`: it is not JSON, or it
\* fails the schema, or the profileId inside it is another one.
Damaged(content, id) ==
    \/ Len(content.chunks) # 2
    \/ ~SchemaOk(content.chunks[1], content.chunks[2])
    \/ content.chunks[1]["profileId"] # id

\* C18: loadProfile fails with PROFILE_NOT_FOUND exactly when the file is missing,
\* fails with PROFILE_ERROR when the file is there but is not valid JSON, fails
\* the schema (a version other than 1 included) or holds another profileId, and
\* returns a record only of version 1 and of the id asked for.
C18_MissingAndDamagedDistinct ==
    \A id \in ProfileIds :
      LET content == disk[ProfilePath(id)]
          r == Loaded(id)
      IN  /\ ~content.exists => ~r.ok /\ r.code = "PROFILE_NOT_FOUND"
          /\ content.exists /\ Damaged(content, id) => ~r.ok /\ r.code = "PROFILE_ERROR"
          /\ r.ok => /\ content.exists
                     /\ r.value.version = 1
                     /\ r.value.profileId = id
          /\ lastLoad # <<>> /\ lastLoad[1].id = id =>
                lastLoad[1].res \in {"ok", "PROFILE_NOT_FOUND", "PROFILE_ERROR"}

\* The last load found the well-formed record of another profile at the path of
\* "p1" and failed with PROFILE_ERROR, while the file of "p2" is missing.
C18_Witness ==
    /\ lastLoad = <<[id |-> "p1", res |-> "PROFILE_ERROR"]>>
    /\ disk[ProfilePath("p1")] = File(Serialize(StoredRecord("p2", 1)))
    /\ ~disk[ProfilePath("p2")].exists
    /\ Loaded("p2").code = "PROFILE_NOT_FOUND"
\* The save call p was given a malformed profile id or a malformed cookie payload.
MalformedSave(sv) ==
    sv.pc # "idle" /\ (~ValidProfileId(sv.id) \/ ~CookiesValid(sv.cookies))

\* C19: a step of a save given a malformed profile id or a malformed cookie
\* payload, and a load or a delete given a malformed profile id, leave the
\* profiles directory, the profile files and the temp files exactly as they were.
C19_MalformedInputTouchesNothing ==
    [][/\ \A p \in Savers :
            saves'[p] # saves[p] /\ MalformedSave(saves'[p]) => disk' = disk
       /\ lastLoad' # lastLoad /\ lastLoad' # <<>> /\ lastLoad'[1].res = "VALIDATION_ERROR"
            => disk' = disk
       /\ lastDelete' # lastDelete /\ lastDelete' # <<>>
            /\ lastDelete'[1].res = "VALIDATION_ERROR"
            => disk' = disk]_vars

\* A save given a cookie without a name has failed with PROFILE_ERROR, and the
\* profiles directory has been made although no save has got further than that.
C19_Witness ==
    /\ \E p \in Savers :
         /\ saves[p].pc = "failed"
         /\ saves[p].error = "PROFILE_ERROR"
         /\ ~CookiesValid(saves[p].cookies)
    /\ \A p \in Savers : saves[p].pc \in {"idle", "failed"}
    /\ disk[DirPath].exists
    /\ \A path \in Paths \ {DirPath} : ~disk[path].exists
    /\ lastDelete = <<[id |-> "../p", res |-> "VALIDATION_ERROR"]>>
    /\ lastLoad = <<[id |-> "../p", res |-> "VALIDATION_ERROR"]>>
\* C20: a save, a load or a delete that hits a filesystem failure other than a
\* missing file (permission denied, no space left, a failed temp write or
\* rename) fails with PROFILE_ERROR, never with the raw OS error.
C20_IoFailuresAreStoreErrors ==
    [][/\ \A p \in Savers :
            SaveEnsureFail(p) \/ SaveWriteFail(p) \/ SaveRenameFail(p) =>
              saves'[p].error = "PROFILE_ERROR"
       /\ LoadFault => lastLoad'[1].res = "PROFILE_ERROR"
       /\ DeleteFault => lastDelete'[1].res = "PROFILE_ERROR"]_vars

\* A save has failed in mid-write with the raw ENOSPC and left a partial temp
\* file, while a load and a delete that hit a failure gave PROFILE_ERROR on a
\* profile file that is there and well-formed.
C20_Witness ==
    /\ \E p \in Savers :
         /\ saves[p].pc = "failed"
         /\ saves[p].error = "ENOSPC"
         /\ Len(disk[TmpPath(ProfilePath(saves[p].id))].chunks) = 1
    /\ Loaded("p1").ok
    /\ lastLoad = <<[id |-> "p1", res |-> "PROFILE_ERROR"]>>
    /\ lastDelete = <<[id |-> "p1", res |-> "PROFILE_ERROR"]>>

\* C23: in a process started with a TTL of 0 no session is ever removed by a sweep and the close callback is never
\* invoked, however long a session has been idle: every session registered
\* stays live.
C23_NoEvictionWhenTtlZero ==
    tabTtl = 0 =>
      /\ \A id \in TabIds :
           /\ removedBy[id] # "sweep"
           /\ closeCalls[id] = <<>>
           /\ closeRaw[id] = None
      /\ \A i \in 1..issued : removedBy[TabIdSeq[i]] = None => TabIdSeq[i] \in LiveIds

\* With a TTL of 0, a session has been idle for the whole run of the clock and
\* is still live.
C23_Witness ==
    /\ tabTtl = 0
    /\ now = MaxTime
    /\ \E id \in LiveIds : tabs[id].lastActivity = 0

\* The close the sweep started for this session id has not settled yet.
EvictionCloseInFlight(id) == closeRaw[id] = "pending"

\* C30: while the close callback started by a sweep for a session id is in
\* flight, that id is not live in the registry: the sweep took it out before it
\* started the close.
C30_NeverLiveAndClosing ==
    \A id \in TabIds :
      EvictionCloseInFlight(id) => id \notin LiveIds /\ removedBy[id] = "sweep"

\* An eviction close is in flight for one session while another session,
\* registered later, is live.
C30_Witness ==
    \E id \in TabIds, other \in LiveIds :
      /\ EvictionCloseInFlight(id)
      /\ closeWrap[id] = "timeout"
      /\ removedBy[id] = "sweep"
      /\ tabs[other].lastActivity = now

\* The save call is inside the function runExclusive runs: between the
\* resolution of its acquire and its release.
InSection(sv) == sv.pc \in {"locked", "write", "writing", "rename"}

\* C27: for each profile file path at most one save is inside its read-existing,
\* write-temp, rename section; the mutex of the path is locked while one is, and
\* a save that had to wait enters only in the step in which the holder leaves
\* (its rename done or failed, or its write failed).
C27_OneSaveInSection ==
    /\ [](\A p, q \in Savers :
            p # q /\ InSection(saves[p]) /\ InSection(saves[q])
              => saves[p].id # saves[q].id)
    /\ [](\A p \in Savers :
            InSection(saves[p]) => mutex[ProfilePath(saves[p].id)].locked)
    /\ [][\A p \in Savers :
            saves[p].pc = "queued" /\ saves'[p].pc = "locked" =>
              \E q \in Savers :
                /\ q # p
                /\ saves[q].id = saves[p].id
                /\ InSection(saves[q])
                /\ saves'[q].pc \in {"done", "failed"}]_vars

\* A save that had to wait is writing its temp file after the save before it, of
\* the same id, failed in the section with an OS error.
C27_Witness ==
    \E p, q \in Savers :
      /\ p # q
      /\ saves[p].id = saves[q].id
      /\ saves[p].pc = "writing"
      /\ saves[p].waited
      /\ saves[q].pc = "failed"
      /\ saves[q].error \in OsErrors

\* The save calls waiting for the mutex of `path`
QueuedOn(path) ==
    {p \in SaversLong : saves[p].pc = "queued" /\ ProfilePath(saves[p].id) = path}

\* C28: the mutex of a file path grants its acquisitions one at a time and in
\* the order of the acquire calls: an acquire on an unlocked mutex proceeds at
\* once, an acquire on a locked one joins the end of the queue, and a waiter is
\* admitted only when it is first in the queue, in the step in which the holder
\* releases; the queue holds exactly the waiting calls, each once.
C28_MutexFifo ==
    /\ [](\A path \in FilePaths :
            /\ Len(mutex[path].waiters) = Cardinality(QueuedOn(path))
            /\ \A i \in 1..Len(mutex[path].waiters) : mutex[path].waiters[i] \in QueuedOn(path)
            /\ Cardinality({p \in SaversLong : InSection(saves[p])
                                               /\ ProfilePath(saves[p].id) = path}) <= 1)
    /\ [][\A p \in SaversLong :
            /\ saves[p].pc = "ensure" /\ saves'[p].pc \in {"locked", "queued"} =>
                 LET m == mutex[ProfilePath(saves[p].id)]
                     after == mutex'[ProfilePath(saves[p].id)]
                 IN  IF m.locked
                     THEN saves'[p].pc = "queued" /\ after.waiters = Append(m.waiters, p)
                     ELSE saves'[p].pc = "locked" /\ after.waiters = m.waiters
            /\ saves[p].pc = "queued" /\ saves'[p].pc = "locked" =>
                 LET m == mutex[ProfilePath(saves[p].id)]
                     after == mutex'[ProfilePath(saves[p].id)]
                 IN  /\ Head(m.waiters) = p
                     /\ after.waiters = Tail(m.waiters)
                     /\ after.locked
                     /\ \E q \in SaversLong :
                          /\ InSection(saves[q]) /\ ~InSection(saves'[q])
                          /\ saves[q].id = saves[p].id]_vars

\* Two saves queued behind a third for the same file; the one that called first
\* has been admitted and is in the section while the other still waits.
C28_Witness ==
    \E p, q, r \in SaversLong :
      /\ saves[p].id = "p1" /\ saves[q].id = "p1" /\ saves[r].id = "p1"
      /\ saves[r].pc = "done" /\ ~saves[r].waited
      /\ InSection(saves[p]) /\ saves[p].waited
      /\ saves[q].pc = "queued"
      /\ mutex[ProfilePath("p1")].waiters = <<q>>

\* C29: a save of one profile id never waits for a save of another id.  A save
\* is queued only behind a save of the same id that is in the section, and a
\* save of "p1" that has been called returns, however long a save of "p2" stays
\* where it is, also inside its section.
C29_OtherIdNeverBlocks ==
    /\ [](\A p \in Savers :
            saves[p].pc = "queued" =>
              \E q \in Savers : q # p /\ saves[q].id = saves[p].id /\ InSection(saves[q]))
    /\ (saves["s1"].pc = "ensure" ~> saves["s1"].pc = "done")

\* The save of "p1" was called and has returned while the save of "p2" has been
\* holding its mutex all along.
C29_Witness ==
    /\ saves["s2"].pc = "writing" /\ saves["s2"].now = 0
    /\ saves["s1"].pc = "done" /\ saves["s1"].now = MaxTime
    /\ mutex[ProfilePath("p2")].locked
    /\ ~mutex[ProfilePath("p1")].locked
    /\ Loaded("p1").ok

\* C25: deleteProfile of a profile whose file exists removes that file and
\* nothing else, so that loadProfile fails with PROFILE_NOT_FOUND from then on
\* until a save of that id returns; deleteProfile of a missing profile fails
\* with PROFILE_NOT_FOUND and changes nothing on disk.
C25_DeleteRemovesOrNotFound ==
    [][\A id \in ProfileIds :
         /\ DeleteProfileOn(id) =>
              IF disk[ProfilePath(id)].exists
              THEN /\ lastDelete' = <<[id |-> id, res |-> "ok"]>>
                   /\ ~disk'[ProfilePath(id)].exists
                   /\ \A path \in Paths \ {ProfilePath(id)} : disk'[path] = disk[path]
                   /\ Loaded(id)' = [ok |-> FALSE, code |-> "PROFILE_NOT_FOUND"]
              ELSE /\ lastDelete' = <<[id |-> id, res |-> "PROFILE_NOT_FOUND"]>>
                   /\ disk' = disk
         /\ ~disk[ProfilePath(id)].exists /\ disk'[ProfilePath(id)].exists =>
              \E p \in Savers : SaveReturns(p) /\ saves[p].id = id]_vars

\* A profile was saved and then deleted, and the load after that failed with
\* PROFILE_NOT_FOUND.
C25_Witness ==
    /\ \E p \in Savers : saves[p].pc = "done" /\ saves[p].id = "p1"
    /\ \A p \in Savers : saves[p].pc \in {"idle", "done"}
    /\ lastDelete = <<[id |-> "p1", res |-> "ok"]>>
    /\ lastLoad = <<[id |-> "p1", res |-> "PROFILE_NOT_FOUND"]>>
    /\ ~disk[ProfilePath("p1")].exists

\* The id is 1 to 64 characters, the first a letter, a digit or an underscore,
\* the others letters, digits, dots, hyphens or underscores.
Letters == {"a", "b", "c", "d", "p", "z", "A", "Z"}
Digits == {"0", "1", "2", "9"}
WellFormedId(t) ==
    /\ Len(t) >= 1 /\ Len(t) <= 64
    /\ t[1] \in Letters \cup Digits \cup {"_"}
    /\ \A i \in 2..Len(t) : t[i] \in Letters \cup Digits \cup {".", "-", "_"}

\* The outcome says the id was refused by validateProfileId.
Refused(last) == last[1].res = "VALIDATION_ERROR"

\* C26: validateProfileId accepts exactly the ids of 1 to 64 characters whose
\* first character is a letter, digit or underscore and whose other characters
\* are letters, digits, dots, hyphens or underscores; every other id is refused
\* with VALIDATION_ERROR, so an accepted id holds no "/" and is neither "." nor
\* "..".
C26_ValidateIdExact ==
    /\ lastLoad # <<>> =>
         /\ Refused(lastLoad) <=> ~WellFormedId(IdText[lastLoad[1].id])
         /\ ~Refused(lastLoad) =>
              /\ \A i \in 1..Len(IdText[lastLoad[1].id]) : IdText[lastLoad[1].id][i] # "/"
              /\ IdText[lastLoad[1].id][1] # "."
    /\ lastDelete # <<>> =>
         /\ Refused(lastDelete) <=> ~WellFormedId(IdText[lastDelete[1].id])
         /\ ~Refused(lastDelete) =>
              /\ \A i \in 1..Len(IdText[lastDelete[1].id]) : IdText[lastDelete[1].id][i] # "/"
              /\ IdText[lastDelete[1].id][1] # "."

\* An id of 64 characters was accepted by a load and an id of 65 characters was
\* refused by a delete.
C26_Witness ==
    /\ lastLoad = <<[id |-> "a{64}", res |-> "PROFILE_NOT_FOUND"]>>
    /\ lastDelete = <<[id |-> "a{65}", res |-> "VALIDATION_ERROR"]>>

\* The entries of the returned array that carry this profile id
EntriesOf(id) == {i \in 1..Len(listing.profiles) : listing.profiles[i].profileId = id}

\* The ids of the files in the directory with the extension .json
RecordNames == {path[1] : path \in {q \in Readdir(disk) : q[2] = "json"}}

\* C24: the array listProfiles returns holds exactly one entry, the id with the
\* record's metadata, for each file named <id>.json that loadProfile loads, and
\* nothing else: temp files, damaged files, files of another profile's record
\* and files whose name is no profile id are passed over, and the listing
\* always returns.
C24_ListExactlyLoadable ==
    listing.pc = "done" =>
      /\ \A id \in RecordNames :
           IF ValidProfileId(id) /\ Loaded(id).ok
           THEN \E i \in 1..Len(listing.profiles) :
                  /\ EntriesOf(id) = {i}
                  /\ listing.profiles[i].metadata = Loaded(id).value.metadata
           ELSE EntriesOf(id) = {}
      /\ \A i \in 1..Len(listing.profiles) : listing.profiles[i].profileId \in RecordNames

\* A listing has returned one entry, for "p1", from a directory that also holds
\* a temp file cut short, the damaged file of "p2" and the file "bad!.json".
C24_Witness ==
    /\ listing.pc = "done"
    /\ Len(listing.profiles) = 1
    /\ listing.profiles[1].profileId = "p1"
    /\ listing.profiles[1].metadata.cookieCount = 2
    /\ disk[TmpPath(ProfilePath("p1"))].exists
    /\ disk[ProfilePath("p2")].exists
    /\ disk[StrayPath].exists

\* The handler of call c found its tab and has gone past the await of its
\* auto-save or auto-load.
AutoDone(c) ==
    /\ calls[c].found
    /\ calls[c].pc \notin {"idle", "creating", "autosave", "autoload"}

\* What the primary operation of call c owes whatever its auto step gave: a
\* close tool has requested the remote close, and once that has succeeded the
\* result is not an error and says autoSaved false unless the save was made; a
\* create_tab has returned the created tab, still tracked unless a close of that
\* tab or of its session has run meanwhile.
PrimaryDone(c) ==
    IF calls[c].tool = "create_tab"
    THEN /\ calls[c].pc = "returned"
         /\ calls[c].result = <<OkResult(<<calls[c].tabId>>, <<>>)>>
         /\ \/ IsTracked(tabs, calls[c].tabId)
            \/ removedBy[calls[c].tabId] = "close"
    ELSE /\ calls[c].remote # "none"
         /\ calls[c].remote = "ok" =>
              /\ calls[c].pc = "returned"
              /\ ~calls[c].result[1].isError
              /\ calls[c].result[1].autoSaved =
                   <<calls[c].saved[1].ok /\ SavedFlag[calls[c].saved[1].value]>>

\* C21: A best-effort auto-save or auto-load never fails or blocks the primary
\* operation: whether the wrapped operation succeeds, fails or exceeds its
\* deadline, the handler leaves the await of withAutoTimeout, close_tab and
\* close_session request the remote close and, when it succeeds, return a
\* non-error result whose autoSaved is false after a failure or a timeout, and
\* create_tab returns the created tab, which its auto-load has left tracked.
C21_AutoStepNeverFailsPrimary ==
    /\ [](\A c \in CallIds : AutoDone(c) => PrimaryDone(c))
    /\ \A c \in CallIds :
         (calls[c].pc \in {"autosave", "autoload"})
           ~> (calls[c].pc \notin {"autosave", "autoload"})

\* A close_tab whose auto-save timed out, one whose auto-save failed and a
\* create_tab whose auto-load failed have all returned.
C21_Witness ==
    /\ \E c \in CallIds :
         /\ calls[c].tool = "close_tab"
         /\ calls[c].pc = "returned"
         /\ calls[c].saved = <<TimeoutResult>>
         /\ calls[c].result = <<OkResult(<<calls[c].tabId>>, <<FALSE>>)>>
    /\ \E c \in CallIds :
         /\ calls[c].tool = "create_tab"
         /\ calls[c].pc = "returned"
         /\ calls[c].saved = <<OnRejected("e1")>>
         /\ IsTracked(tabs, calls[c].tabId)

\* No tab of user u is tracked in t.
NoTabOf(t, u) == \A id \in DOMAIN t : t[id].userId # u

\* C22: An explicit close removes the local registry entries whether or not the
\* remote close succeeds: once close_tab has returned the tab it found is not tracked,
\* and at the step camofox_close_session returns no tab of the user it found is
\* tracked, also when the remote close failed and the result is an error.
C22_CloseRemovesLocally ==
    /\ [](\A c \in CallIds :
            calls[c].tool = "close_tab" /\ calls[c].found /\ calls[c].pc = "returned"
              => ~IsTracked(tabs, calls[c].tabId))
    /\ [][\A c \in CallIds :
            /\ calls[c].pc = "closing"
            /\ calls'[c].pc = "returned"
            /\ calls[c].tool = "close_session"
            => NoTabOf(tabs', calls[c].userId)]_vars

\* A close_tab and a camofox_close_session whose remote close failed have both
\* returned an error, and a tab of another user is still tracked.
C22_Witness ==
    /\ \E c \in CallIds :
         /\ calls[c].tool = "close_tab"
         /\ calls[c].remote = "failed"
         /\ calls[c].result[1].isError
    /\ \E c \in CallIds :
         /\ calls[c].tool = "close_session"
         /\ calls[c].remote = "failed"
         /\ calls[c].result[1].isError
         /\ NoTabOf(tabs, calls[c].userId)
         /\ tabs # <<>>

\* C38: clearTrackedTabsByUserId(userId) removes every live tab whose userId
\* matches and no other: the tabs of other users stay live with unchanged records.
C38_ClearByUserExact ==
    [][\A u \in UserIds :
         ClearTrackedTabsByUserIdOn(u) =>
           /\ \A id \in DOMAIN tabs' : tabs'[id].userId # u
           /\ \A id \in DOMAIN tabs :
                tabs[id].userId # u => id \in DOMAIN tabs' /\ tabs'[id] = tabs[id]
           /\ DOMAIN tabs' \subseteq DOMAIN tabs]_vars

\* Two tabs of one user were cleared while the tab opened between them, of
\* another user, has stayed live with its history.
C38_Witness ==
    /\ issued = 3
    /\ DOMAIN tabs = {"t2"}
    /\ tabs["t2"].visitedUrls = <<"A", "B">>
    /\ removedBy = [id \in TabIds |-> "none"]

\* The handleShutdown runs started so far.
DrainsStarted == {s \in Signals : drains[s].st # "idle"}

\* C39: the shutdown drain runs at most once per process: a second termination
\* signal that arrives while the first drain is waiting starts no second drain.
C39_DrainAtMostOnce == Cardinality(DrainsStarted) <= 1

\* SIGINT started a drain whose close is still pending and whose budget timer is
\* still armed; SIGTERM then ran handleShutdown again over the emptied registry
\* and the process has exited.
C39_Witness ==
    /\ phase = "exited"
    /\ drains["SIGINT"].st = "waiting"
    /\ drains["SIGINT"].timer = "armed"
    /\ \E id \in drains["SIGINT"].ids : closeWrap[id] = "pending"
    /\ drains["SIGTERM"].st = "waiting"
    /\ drains["SIGTERM"].ids = {}

\* C37: across successive completed saves of one profile id the stored updatedAt
\* never decreases and is never earlier than the stored createdAt, also when the
\* saves were issued concurrently and queued on the mutex (the clock never goes
\* backward).
C37_UpdatedAtMonotone ==
    [][\A p \in Savers :
         SaveReturns(p) =>
           LET fp == ProfilePath(saves[p].id)
               old == LoadOutcome(disk[fp], saves[p].id)
               new == LoadOutcome(disk'[fp], saves[p].id)
           IN  /\ new.ok
               /\ new.value.metadata.createdAt <= new.value.metadata.updatedAt
               /\ old.ok => old.value.metadata.updatedAt <= new.value.metadata.updatedAt]_vars

\* A save that had to queue behind another one has returned; its record is the
\* stored one, updated later than it was created.
C37_Witness ==
    \E p \in Savers :
      /\ saves[p].pc = "done"
      /\ saves[p].waited
      /\ Loaded(saves[p].id).ok
      /\ Loaded(saves[p].id).value = ProfileOf(saves[p])
      /\ saves[p].createdAt < saves[p].now

\* C36: a save over an id whose file is missing, unparseable, schema-invalid or
\* carries another profileId succeeds: the failed load counts as no prior record,
\* createdAt is the time of the save, and the file is replaced by a valid record
\* that a load then returns.
C36_SaveOverDamagedFile ==
    /\ [](\A p \in Savers : saves[p].pc # "failed")
    /\ [][\A p \in Savers :
            /\ saves[p].pc = "locked" /\ saves'[p].pc # "locked"
               /\ ~LoadOutcome(disk[ProfilePath(saves[p].id)], saves[p].id).ok
               => saves'[p].pc = "write" /\ saves'[p].createdAt = saves[p].now
            /\ SaveReturns(p) =>
                 LET r == LoadOutcome(disk'[ProfilePath(saves[p].id)], saves[p].id)
                 IN  r.ok /\ r.value = ProfileOf(saves[p])]_vars

\* The file of "p1" was damaged (a load of it failed with PROFILE_ERROR), no
\* other save has been called, and this save has returned: a load now gives its
\* record, created at the time of the save and not at the time in any file.
C36_Witness ==
    \E p \in Savers :
      /\ saves[p].pc = "done"
      /\ \A q \in Savers \ {p} : saves[q].pc = "idle"
      /\ lastLoad = <<[id |-> "p1", res |-> "PROFILE_ERROR"]>>
      /\ Loaded("p1").ok
      /\ Loaded("p1").value = ProfileOf(saves[p])
      /\ saves[p].createdAt = saves[p].now
      /\ saves[p].now > 0

\* C32: a save whose critical section fails (the temp-file write or the rename
\* throws) releases the mutex of its file: the step admits the first save queued
\* behind it or unlocks the mutex, and every queued save is eventually admitted
\* as long as each critical section comes to its end.
C32_FailedSaveReleases ==
    /\ [][\A p \in SaversLong :
            saves[p].pc \in {"write", "writing", "rename"} /\ saves'[p].pc = "failed" =>
              LET key == MutexKey(ProfilePath(saves[p].id))
              IN  IF mutex[key].waiters # <<>>
                  THEN /\ saves'[Head(mutex[key].waiters)].pc = "locked"
                       /\ mutex'[key].waiters = Tail(mutex[key].waiters)
                       /\ mutex'[key].locked
                  ELSE ~mutex'[key].locked]_vars
    /\ \A p \in SaversLong : (saves[p].pc = "queued") ~> (saves[p].pc # "queued")

\* The saves of s1 and s2 of one profile have failed in their critical sections,
\* and s3, which had to queue, has stored its record.
C32_Witness ==
    /\ saves["s1"].pc = "failed" /\ saves["s1"].error \in OsErrors
    /\ saves["s2"].pc = "failed" /\ saves["s2"].error \in OsErrors
    /\ saves["s1"].id = "p1" /\ saves["s2"].id = "p1" /\ saves["s3"].id = "p1"
    /\ saves["s3"].waited
    /\ saves["s3"].pc = "done"
    /\ ~mutex[MutexKey(ProfilePath("p1"))].locked

\* C34: a delete running beside a save of the same id leaves what a
\* serial order of the two would: the profile is absent, or it is present as a
\* newly created record, so a save that puts its record where the delete has
\* left no file stores createdAt = its own time.
C34_DeleteSaveSerial ==
    [][\A p \in Savers :
         SaveReturns(p) /\ ~disk[ProfilePath(saves[p].id)].exists =>
           LoadOutcome(disk'[ProfilePath(saves[p].id)], saves[p].id)
             .value.metadata.createdAt = saves[p].now]_vars

\* A save has read the stored record, whose createdAt it carries, and written
\* its temp file; the delete has removed the record since, and the save is about
\* to rename its record into place.
C34_Witness ==
    \E p \in Savers :
      /\ saves[p].pc = "rename"
      /\ saves[p].createdAt < saves[p].now
      /\ disk[TmpPath(ProfilePath("p1"))].exists
      /\ ~disk[ProfilePath("p1")].exists
      /\ lastDelete = <<[id |-> "p1", res |-> "ok"]>>

\* C35: a create_tab call that returned MAX_TABS_EXCEEDED has left no remote tab
\* of its own open: the tab client.createTab opened for it is closed again.
C35_NoUntrackedRemoteTab ==
    \A c \in CallIds :
        (/\ calls[c].tool = "create_tab"
         /\ calls[c].pc = "returned"
         /\ calls[c].result = <<ToErrorResult("MAX_TABS_EXCEEDED")>>)
        => calls[c].tabId \notin DOMAIN remote

\* A create_tab call was refused at capacity: the registry holds MAX_TABS other
\* tabs, the tab the call opened is open at the service and is not tracked.
C35_Witness ==
    \E c \in CallIds :
        /\ calls[c].tool = "create_tab"
        /\ calls[c].pc = "returned"
        /\ calls[c].result = <<ToErrorResult("MAX_TABS_EXCEEDED")>>
        /\ Cardinality(DOMAIN tabs) = MAX_TABS
        /\ calls[c].tabId \in DOMAIN remote
        /\ calls[c].tabId \notin DOMAIN tabs
        /\ removedBy[calls[c].tabId] = "refused"

\* The close_tab calls that have called client.closeTab(tabId, userId) for id
HandlerCloses(id) ==
    {c \in CallIds : /\ calls[c].tool = "close_tab"
                     /\ calls[c].tabId = id
                     /\ calls[c].remote # "none"}
\* The remote closes requested for id: by the close_tab handlers, and by the
\* closeTab callback the sweep and the drain invoke
RemoteCloseRequests(id) == Cardinality(HandlerCloses(id)) + Len(closeCalls[id])

\* C33: over close_tab, the idle sweep and the shutdown drain together, the
\* remote close of a tab is requested at most once.
C33_RemoteCloseAtMostOnce == \A id \in TabIds : RemoteCloseRequests(id) <= 1

\* A close_tab call has looked the tab up and is awaiting its remote close; the
\* shutdown drain found the tab still tracked and its own close of the same tab
\* is in flight too.
C33_Witness ==
    \E c \in CallIds, s \in Signals :
        /\ phase = "running"
        /\ calls[c].tool = "close_tab"
        /\ calls[c].pc = "closing"
        /\ calls[c].remote = "pending"
        /\ calls[c].tabId \in drains[s].ids
        /\ closeRaw[calls[c].tabId] = "pending"
        /\ Len(closeCalls[calls[c].tabId]) = 1
        /\ Cardinality(HandlerCloses(calls[c].tabId)) = 1

\* C31: a timeout outcome does not cancel the wrapped operation: once the timer
\* has fired the operation is still pending or settles on its own, the caller
\* keeps the timeout result, and a pending operation can still resolve, also
\* after the close_tab call has returned and the tab is removed.
C31_TimeoutLeavesOperationRunning ==
    \A c \in CallIds :
        races[c].timer = "fired"
        => /\ races[c].result = <<TimeoutResult>>
           /\ races[c].op \in {"pending", "resolved", "rejected"}
           /\ races[c].op = "pending" => ENABLED OpResolve(c)

\* A close_tab call returned autoSaved: false because its auto-save timed out,
\* the tab is closed and removed, and the auto-save function has since run to
\* its end and returned true, that is after saveProfile wrote the profile.
C31_Witness ==
    \E c \in CallIds :
        /\ calls[c].tool = "close_tab"
        /\ calls[c].pc = "returned"
        /\ calls[c].saved = <<TimeoutResult>>
        /\ calls[c].remote = "ok"
        /\ calls[c].result = <<OkResult(<<calls[c].tabId>>, <<FALSE>>)>>
        /\ calls[c].tabId \notin DOMAIN tabs
        /\ races[c].timer = "fired"
        /\ races[c].op = "resolved"
        /\ races[c].opVal = "v1"
====
